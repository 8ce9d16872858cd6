# A TLA+ development of opennotr

opennotr exposes services that live behind a NAT. A client (`opennotr`) keeps
one TCP connection to the server (`opennotrd`) and asks for forwards: public
ports, or HTTP host names, that lead to local ports of the client's machine.
The server gives each client a virtual address (vip); a public port is proxied
to `vip:port`, the kernel redirects traffic for virtual addresses to two
transparent sockets of the same server, and these carry it through the client's
multiplexed connection (smux).

    browser -> tcpproxy/udpproxy ---> vip:port --tproxy--> tcpforward/udpforward
               gateway (restyproxy) -/                          |
                                                     smux stream of the session
                                                                |
    local service <--------------- client (handleStream) <------+

This directory holds the models, the TLC configurations that check them on
small instances, and the proofs that TLAPS checks for all instances.

## Inventory

| Part | Source | State | Operations | Hard because |
|---|---|---|---|---|
| address pool | `opennotrd/core/dhcp.go` | `free`, `inuse` | NewDHCP, SelectIP, ReleaseIP | signed 32-bit arithmetic; nothing calls ReleaseIP |
| connection life cycle | `opennotrd/core/server.go` | locals of one goroutine per client, its deferred calls | onConn | an early return at every stage, a link that dies at any of them, a panic that kills the process |
| plugin manager | `opennotrd/plugin/plugin.go` | `routes` under one mutex | AddProxy, DelProxy | deletes by key; calls plugins under the lock |
| tcpproxy, udpproxy | `opennotrd/plugin/{tcp,udp}proxy` | sockets, a loop and a recycler goroutine per proxy, tables of backend sockets | RunProxy, StopProxy, doProxy | a signal that can be dropped, loops that fail by themselves, entries that expire without being closed |
| restyproxy | `opennotrd/plugin/restyproxy` | the gateway's upstreams, requests in flight | RunProxy, StopProxy | POST is asynchronous, DELETE may fail; the gateway survives a crash |
| session table | `opennotrd/core/session.go` | vip -> session | AddSession, GetSession, DeleteSession | read by the data plane at any time |
| resolver | `opennotrd/core/resolver.go` | records in etcd | ApplyDomain | waits without a timeout |
| tcp forward | `opennotrd/core/tcpforward.go` | two goroutines per connection | forwardTCP | who closes what when one direction ends |
| udp forward | `opennotrd/core/udpforward.go` | `udpSessions` under a lock, a goroutine per session | Serve, forwardUDP, recyeleSession | a session is replaced while the goroutine of the old one is about to delete it |
| raw packets | `opennotrd/core/net.go` | none | checksum, sendUDPViaRaw, encode | 16-bit lengths; the one's complement sum |
| wire protocol | `internal/proto/cs.go`, `net.go`, `client.go` | none | Read, Write | 16-bit lengths; reads that return a part of a message |
| client | `opennotr/client.go` | one connection, streams | Run, handleStream | reconnects while the server still serves the old connection |
| start-up, configuration | `opennotrd/run.go`, `config.go` | none | Run | sequential |
| logging front end | `internal/logs/log.go` | outputs, queue, signals, a WaitGroup | level functions, Async, SetLogger, DelLogger, Flush, Reset, Close | an asynchronous goroutine, hardly any lock |
| log files | `internal/logs/file.go`, `multifile.go` | open files, their lines and days, timers | WriteMsg, doRotate, deleteOldLog, restarts | rotations decided under one lock and done under another, timers beside writers, failures half-way |
| Windows console | `internal/logs/color_windows.go` | a state machine over bytes | Write | sequences divided over Writes |
| log service | `internal/logs/alils` | buffers per topic | WriteMsg, Flush, PutLogs | requests that fail after they were stored; signatures |
| log collector | `internal/logs/conn.go` | a connection | WriteMsg, connect | no lock, errors ignored |
| other log outputs | `console`, `smtp`, `slack`, `jianliao`, `es` | none | | one call per message |

What makes each part correct, in a sentence: an address is held by one client;
a route belongs to one client and is returned when it leaves; a client is
served everything it asked for or nothing; whatever outlives a client (a
listener, an upstream, a late request) never leads to another one; a client
whose link died is reclaimed. On the data path: an answer goes back to whom it
is owed; a flow or a connection has one stream, and that stream has somebody
who reads it; what a connection holds is given back when either end closes or
the session is lost; a stream nobody reads does not stop the others. Of the
logs: a message that was accepted is written once and in order, and what is
written is not lost by a rotation. The hazards, each at its line and with the
properties that cover it, are listed in `PROJECT.json`.

## Modules

`IPRange` is the arithmetic of `getIPRange`, `NewDHCP` and `toIP`, for octets of
any width, and the reference it is compared with (`Hosts`: the addresses of the
block after the configured one and before the broadcast address).

`DHCP` is the pool: `SelectIP` takes any free address (a Go map has no order),
`ReleaseIP` is modelled although the server never calls it.

`PluginManager` has the routes map and what the plugins leave running. A map is
a set of entries that carry their keys. The goroutines of a listener are four
sets of items: `spawned` (the recycler has not reached its select), `parked`
(it waits there), `signalled` (it has received and will close the socket) and
`accepting` (the loop runs); `listening` are the open sockets. `StopListener`
is Go's non-blocking send on an unbuffered channel: received if and only if the
item is parked. The gateway is external: `upstream` is its table, `posts` and
`deletes` are requests in flight, handled in any order, lost, or handled after
the server stopped waiting for them.

`Server` EXTENDS both and gives every connection a program counter along
`onConn`: `auth`, `select`, `resolve`, `add`, `reply`, `mux`, `serve`, then
`delsess` (the last deferred call runs first), `unwind` (one deferred DelProxy
per step) and `closed`. Each early return of the code is an action of its own.
`rest` is what the two nested loops over forwards and ports have left. `link`
is the TCP connection, which may die at any step; `mux` is the smux session,
which notices only when its keepalive expires, and not while its receive buffer
is `full` of what a proxy's copy waits to write to a public peer. `Crash` stops the process at any
step (the code's own way is the panic of `publicIP`): the gateway's table, the
requests on the wire and etcd survive, everything else restarts from nothing.

`RouteLease` is the abstract specification: routes are leased to one client at
a time, a client is served only while it holds all it asked for, and is gone
only once it holds nothing. `Server!RL` maps `pc`, `auth` and `routes` onto it.

The data path is modelled in parts that share variables where the code shares
a resource.

    UDPProxy  ---------------- one udp proxy, alone
    TCPProxy  ---------------- one tcp proxy, alone --------------+
    Smux <- SessionManager <- UDPForward \                        |
      ^                       TCPForward  \                       |
      +---- ClientRelay ------------------ UDPTunnel              |
                                           TCPTunnel <- TCPRelay -+

    Server <- Opennotr ------- the client that connects again

`UDPProxy` is one proxy after `RunProxy`: the read loop with a program counter
between any two accesses to the two `sync.Map`s, the recycler, the expiry
goroutine, which reads a time (`Judge`) a step before it deletes (`Expire`),
and a `udpCopy` per backend socket; `forgotten` are the sockets whose entries
expired, which nobody will close. `TCPProxy` is the same for tcp: accept
loop, recycler, and a `doProxy` per connection with its two copies (`inward`,
`outward`). Both map their goroutines onto those `PluginManager` keeps for an
item (`ImplementsListener`): what the control plane assumes of a listener is
what the two plugins do. A write to a public peer that has closed succeeds and is
lost, and has the peer's kernel reset the connection (`reset`); the next one fails.

`Smux` is external: what the code relies on of xtaci/smux. `up` are the ends of
sessions that work, `inbox` what an end of a stream has received and not read,
`closed` the ends that were closed. All streams of a session share one receive
buffer of `Window` frames per end. A stream's first frame is its header.

`SessionManager` is the table of sessions as the data path sees it. `UDPForward`
is `Serve` with a program counter (it unlocks the map between the lookup and the
store), one `forwardUDP` per stream (`reader`) and `recyeleSession`. Its map is
keyed by flow; `sessionKey` is the key each `forwardUDP` was started with.
`TCPForward` is one `forwardTCP` per connection (`main`) with its second
goroutine (`upward`); `front` and `conn` are the two ends of the connection it
was accepted from, `Returns` the deferred calls. Of its first answer to a `doProxy`
that has ended nothing is heard either (`DownLost`). A header, or the body of an
answer, may miss its deadline and have been sent all the same (`HeaderLate`,
`BodyLate`). `ClientRelay` is the client's
`handleStream`, `tcpProxy` and `udpProxy`, with two goroutines per stream.

`UDPTunnel` and `TCPTunnel` compose a forwarder, the clients and smux.
`TCPRelay` adds `TCPProxy` in front: its backend connection (`front`, `conn`)
is the connection `TCPForward` accepts, and a dial, an end of `doProxy` and
every frame are joint steps of the two.

`Opennotr` EXTENDS `Server` with the client's `Run`: an attempt is the next
`Conn`, and `run` is where it is (`dial`, `write`, `read`, `accept`; `full` when its
own receive buffer is, so that smux neither reads nor gives up a dead session and
`AcceptStream` does not return). Each of its
steps that meets the server is a joint one: `Dial` is `Accept`, the server's
`ReadAuth` waits for `WriteAuth`, `ReadReply` for the stage behind the reply. The
server may still serve older attempts. Time is a count: `tries` bounds the
attempts that meet a connection the server has not yet given up.

Parts on their own, that share no state with the rest:

- `Framing`: the places where a length and a body go over a stream of octets (control
  connection; a tunnel's header and datagrams; its answers), with octets of any base,
  smux's frames, TCP's arbitrary pieces, writes that fail with any part sent, and
  reads that fail anywhere. `Serve` goes on writing after a missed deadline; once a
  message was cut that way, or is longer than two octets can tell, the stream is
  `shifted`, and `messages` has those before.
- `RawUDP`: `sendUDPViaRaw` octet by octet for words of any width, and a receiver
  after the standards that accepts or drops the packet.
- `BeeLogger`: the front end with any number of writers and one controller; every
  access to a shared field, channel operation and WaitGroup operation is a step of
  its own (`Start` tests `init` without the lock, `AddConsole` acts on it later), and a panic (send on a closed or nil channel, negative counter) is a
  state.
- `FileLog`: the file outputs in one directory, several logs at once, days (some of
  23 or 25 hours: `Forward`, `Back`), the two locks, timers, failures of opening and
  renaming, restarts. The error of a level's `Init` is ignored (`InitFails`): its
  writer has no file and its day is that of a zero time, 0001-01-01 (`Never`), in the
  name of the file the first rotation finds. The walk over old files only condemns
  names (`doomed`); `RemoveOld` removes what has the name by then.
- `AnsiColor`: `Write` byte by byte, beside what is meant by the bytes (`meant`).
- `AliLog`: buffers, the mutex of `flush`, a service that stores and whose answer
  may be lost; the order of the signed headers comes from a Go map.
- `ConnWriter`: connections, callers without a lock, a collector that goes away.

The `MC...` modules instantiate the others for TLC, the `...Proofs` modules hold
the theorems. Definitions named `X_Y` and commented as mutants are faulty
variants of `X`; the specifications do not use them.

## Runs

| Run | Instance | Shows |
|---|---|---|
| `traffic` | 2 connections, 9 requests, blocks with one and two addresses, one port of another process, a gateway that loses and reorders requests | the inductive invariant of the proofs, which contains the session table's; addresses and routes are exclusive; all or nothing; listeners and upstreams never lead to a stranger; nobody closes a registered proxy's socket |
| `leases` | 2 connections, 3 requests, etcd, 1 crash | `Server` implements `RouteLease`; clean exits; a dead link is reclaimed, unless a full receive buffer keeps the session open |
| `udp_proxy` | 2 senders, 3 backend sockets | no sender is answered through another's socket; when its socket is closed the loop and every `udpCopy` end but for sessions that had expired; it implements the listener of `PluginManager` |
| `tcp_proxy` | 2 public connections | sockets belong to a `doProxy`; both ends closed releases them; it implements the listener of `PluginManager` |
| `udp_tunnel` | 2 flows of 1 session, 2 streams, late writes | every entry of `udpSessions` has its own stream and a reader, or lost its header; the header is first; the inductive invariant, by which no closed stream is stored |
| `udp_live` | 1 flow of 1 session, 2 streams, buffers of 1 frame | a lost session is forgotten; the client's copies end together; a full receive buffer is read until it has room or holds only what came on streams nobody reads |
| `tcp_tunnel` | 2 connections of 1 session | a `forwardTCP` that returned left nothing; a dialler's close reaches the local service |
| `client` | one client with a fixed and a free port, 3 attempts, 3 addresses; and 1 connection from the public peer to the local service | the client is served again after its link died, unless the server lost its port or a full receive buffer holds the dead session open; the next answer after the peer's kernel has reset the connection takes the whole relay down |
| `logger` | 2 writers of 1 message, 1 controller of 3 calls, 2 adapters, a queue of 1 | the logger panics only where `Async` or `Close` makes it; `Flush` returns only with the queue written; every call returns; what was accepted is written |
| `parts` | see below | the pool is exactly the hosts of the block; log files, colors, log service, collector, framing, raw packets |
| `copies_end`, `both_closed` | as above | the findings |

Bounds of the control plane. Two connections are enough for every conflict over a route, a port, a
host or an address, since conflicts are between two items. A block with two host
bits has two addresses for clients, or one when the configured address is the
block's second: then the second connection finds the pool exhausted. One crash is
enough for what survives it to meet a second generation of clients. Requests
are chosen so that each refusal of `AddProxy` occurs: key in use, protocol
unknown, port busy, local port that does not parse. `CHECK_DEADLOCK FALSE` is
set because the connections of an instance are finite and the system stops
when all are closed. Connections are symmetric: no definition orders them, and
symmetry is not used for liveness.

Bounds of the client. One link dies or one dial fails, and `Retries` = 1
attempt meets the old connection (ten in the code, thirty seconds of keepalive
every three seconds): refused by its own route, or served with another free port.
The third attempt finds the server free of the others. Three addresses are what
three attempts need: none is ever returned, and with fewer the client would be
shut out, which is the first hazard of the list. The request is well-formed.

Bounds of the parts. `PoolInv`: every block of a 4-bit address space. `FileLog`: a
limit of one line shared with a log of errors behind a queue, or one log with two
writers, with and without that limit, also on a day of 25 hours and before one of 23;
2 messages, 2 days, numbers up to 2, one
trouble (a failure, a `Destroy` or a restart; `MaxTroubles`): enough for two writers to pass the check
together, for a day to change between check and write, and for names to run out.
`AnsiColor`: every byte class, parameters 0, 1 and 91, any division into Writes,
up to three parameter bytes. `AliLog`: two callers, two buffers flushed at two
logs, one failure and one lost answer. `ConnWriter`: two callers or one, two
messages, two dials. `Framing`: octets of one bit, so that a body exceeds the
length field; three calls of Write. `RawUDP`: octets of three bits, every pair of octets,
odd lengths and the lengths around the limit. They share no state, so one run has
them side by side: a behaviour is one of one of them (`part`).

Bounds of the data path. Two flows or two connections of one session are enough
for every conflict there is: over a key, a stream or the shared receive buffer.
Streams are not used twice, so `Stream` bounds how many a run opens: two let a
session be replaced while the goroutine of the old one still runs. `udp_live` has one
flow for its two streams: the second is opened when the first has left the table
and shares the buffers with what the first still sends; streams are taken in order
(`InOrder`) since symmetry is not used for liveness. `Window` = 1
makes the buffer full with one frame, so that every order of a full buffer, a
close and a lost session occurs. Three backend sockets let a session of
`UDPProxy` expire and be opened again while the other sender has one. Flows and
senders send without bound: nothing counts datagrams. Where a session expires
the age of an entry is two-valued (recent, old).

Fairness of the control plane. Weak fairness of every step a connection's goroutine can take by
itself (the Go scheduler), of smux's keepalive timer, which ends a session only while
its receive buffer has room (`KeepaliveExpires`), of a read from a dead
connection failing (Go's listener enables TCP keepalive), and of the recyclers
and loops. None of the client, of the gateway, of etcd or of a public peer taking what
fills a buffer (`BufferDrains`): `DeadLinkReclaimed`
lets a connection wait for etcd (stage `resolve`), because the code waits
without a timeout, and for room in its buffer.

Fairness of the data path. Weak fairness of every goroutine of the code, and of an end of a session noticing
that the other is gone. The end of a stream travels behind the frames sent
before it, so a step that sees it also waits for room in the receive buffer;
where other streams may fill that buffer again and again (`TCPTunnel`) its turn
comes all the same, since a session is one ordered connection, and fairness is
strong. Local services are assumed to take what they are sent (for udp the
kernel does). A public peer that is gone holds up no
write: the kernel takes it, or it fails. Nothing else is assumed of public peers,
backends, local services and `StopProxy`: they need not send, answer or close; nor of
time in `UDPProxy`, where a session need not expire.

Fairness of the client. As in `Server`, with the client's own goroutine: its
three seconds pass, and reading from a dead connection fails in the end (TCP
keepalive). Links need not die, dials need not fail, and a full receive buffer need
not drain, at either end.

Fairness of the logger. Its goroutine and those inside a call are scheduled;
nobody needs to log, flush or close.

A write to a stream may miss its deadline at any time (`WriteFails`): the frame
is then lost or was sent all the same. A header lost that way leaves an entry
without a reader in `udpSessions`; `EntryServed` and `HeaderFirst` say exactly
that this is the only exception.

## Findings

Findings with a counterexample of their own:

`copies_end`: a session of `UDPProxy` that expired before the proxy was stopped
keeps its socket and its goroutine for ever.

`both_closed`: after the public peer and the local service have both closed,
`doProxy` and `forwardTCP` wait for each other; only two frames on their way can
still end them: the first is lost and has the connection reset, the next fails
(`AnswerEnds` of run `client`).

Other behaviour a reader of the code may not expect is part of the models, and
the properties are stated so that they hold with it.

- No address ever returns to the pool (`ReleaseIP` has no caller), and each
  refused attempt of a client that reconnects takes another one.
  `ListenerIsolation` and `UpstreamIsolation` hold only because of that:
  releasing addresses on exit (the mutant `Unwound_ReleasesVip`) breaks both.
- StopProxy's signal may be dropped, and the public socket then stays open. It
  never leads to a stranger (`ListenerIsolation`), but the client it belonged to
  may never get its port again: `ComesBack` excepts exactly that (`Lost`).
- smux does not give up a session whose receive buffer is full. A public peer that
  takes nothing (`tcpforward.go:132`), or a local service (`client.go:177-180`), holds
  a dead session open as long as it likes: the server keeps its routes, and refuses
  the client that comes back, and the client stays in `AcceptStream`
  (`DeadLinkReclaimed` and `ComesBack` except this, `Stalled`).
- A POST may be handled after the DELETE of its own proxy, and the upstream then
  stays (`UpstreamIsolation`). Upstreams survive a crash of the server while its
  pool starts anew, so `UpstreamIsolation` is checked without crashes.
- A backend that refuses once cuts its sender off while it keeps sending. A flow
  that was idle may get a second stream while the first is still read, and the
  end of the first deletes the entry of the second (`EntryServed`).
- StopProxy waits up to ten seconds for the gateway with the plugin manager's
  mutex held (`restyproxy.go:50`), and ApplyDomain for etcd without a timeout
  (`resolver.go:54`). A proxy whose accept loop failed by itself keeps its route
  (`tcpproxy.go:64`).
- The route key has the port and the domain, the gateway's only the host
  (`server.go:121`): the second POST of a host overwrites the first.
- A message of more than 65535 octets is framed wrongly (`cs.go:105`), and so is all
  that follows it. The same happens when a datagram that misses its deadline was sent
  in part: `Serve` goes on writing on the stream (`udpforward.go:193-195`). `WireInv`
  is then about the messages before. The check for datagrams that are too
  long (`net.go:46`) can never fire; no datagram from a socket is that long.
- With two goroutines in `Flush` the first one's `Done` lets the second return
  with its messages queued (`log.go:445`): run `logger` has one controller. A
  writer blocks on a full queue, where the comment at `log.go:142-143` has it write
  directly. A message between `Async` and its channel, or after `Close`, panics.
- The deletion of old logs finds those of the levels by the beginning of their
  names, the open one too: what a quiet level logs later is lost, and so is a new
  file that gets an old one's name before the removal (`LinesKept` excepts both).
- On a day of 25 hours, or before one of 23, the 24 hours that `dailyRotate` adds
  (`file.go:193`) can miss the next midnight, and no rotation is planned for it
  (`NextRotationPlanned` excepts those days). The error of a level's `Init` is ignored
  (`multifile.go:70`): no timer, and a file named for the year 1.
- A sequence of the console whose ESC is the last byte of a Write makes the next
  Write panic, and text before an unfinished sequence is lost
  (`color_windows.go:386`); `logger.go:43-46` says divided sequences are fine.
- The connection to a collector is not repaired after an error, since the error
  is dropped (`conn.go:66`, comment at `conn.go:50`), and callers race for the first.
- A message for the log service that starts with a word and `##` panics
  (`alils.go:122`).

## Proofs

The theorems hold for every value of the constants that the named assumptions
allow: any number of connections, clients, streams, callers, files, and any
bounds of the runs. Each invariant proved was first checked by TLC.

**Control plane** (`ServerProofs`; `OctetAssumption`, `PowerAssumption`,
`CidrAssumption`, `PortAssumption`, `ServerAssumption`). `IInv` is an invariant of `Spec`; from it
follow `RouteOwner`, `VipExclusive`, `CleanExit`, `ListenerIsolation`,
`ListenerKept`, `UpstreamIsolation` and, beyond what a run lists on its own,
`SessionsExact` (the session table is exactly the connections being served).
None of them is inductive alone. `RouteOwner` needs the
uniqueness of keys, and that no deferred call is on the stack twice: a DelProxy
deletes by key, and only these say that it deletes its own item.
`SessionsExact` needs `VipExclusive`, because the table is keyed by address;
`VipExclusive` needs `Disjoint` and `Stages`: a connection that selects an
address has none. `ListenerIsolation` needs `TargetsOwned`: an item's target
stays its connection's address for ever, even for a leaked listener. `ListenerKept` needs that only items
of leaving connections have a recycler that was signalled (`SignalledLeave`). `UpstreamIsolation` needs that an upstream, or a request on
its way, names a connection that had its address (`GatewayOwned`), and
`MaxCrashes = 0`: a crash makes the pool forget.

Every proxy a client asked for is registered or
still in `rest`, and nothing is left when the reply is sent (`Accounted`). From
that follow `ServedFully` and that `Server` implements `RouteLease`, with crashes:
a step of the server is a step of the leasing or leaves it unchanged.

With the client in front (`Opennotr`), every step is one of `Server` or leaves
its state alone (`ClientAndServer`), so all of the above holds behind a client
that connects again. `OneConnection` is about both sides: of a client's
connections only the one it uses is alive (`OneAlive`; attempts are used in
order, `UsedInOrder`), the server reads no request that was not written and
answers at the stage the client waits for (`InStep`), and while a client with
its reply is served it has every route it asked for.

**Data path.** `UDPProxyProofs` proves `U_Inv` from `SocketAssumption`: `OwnSocket` alone is not
inductive, since a socket may be dialled again once nothing refers to it;
`NoSocketLost` and `InHand` say what still does. It also proves that every step
of a udp proxy is a step `PluginManager` allows a listener, so what is proved of
listeners in `ServerProofs` rests on no assumption about this plugin's loops.
`TCPProxyProofs` proves the invariant of a tcp proxy, and the same of its steps.

`ClientRelayProofs` has what the calls of smux and the steps of a client
preserve; `UDPTunnelProofs` and `TCPRelayProofs` use it: a client closes no end
but its own, so only the server's goroutines matter for the invariants. In
`UDPTunnel`, `EntryServed` needs `InHand` (the stream `Serve` has just opened is
nobody else's) and `ClosedForgotten` (no closed stream is stored) needs that a stream is closed last, after
its entry was deleted. In `TCPTunnel`, `NothingLeft` needs that streams belong to
one connection each, or one `forwardTCP` could account for another's stream.
`HeaderFirst` follows from `Prefaced`: nothing is sent before the header, and once
it was written it waits at the client's end or that end takes nothing any more. The
assumptions are `SmuxAssumption`, `FlowAssumption` and `ConnAssumption`: typing
of the constants, and a window of at least one frame.

`TCPRelayProofs` also proves that every step of the composition `TCPRelay` is a
step of `TCPTunnel` and one of `TCPProxy`, or leaves them as they are
(`RelayImplementsBoth`): what each model leaves open about the other (when a dial
comes, when an end closes) covers what the other does.
`RelayInvariant` has the invariants of both and that they agree on the
connection they share.

**Logging front end** (`BeeLoggerProofs`; at least one output). `B_Inv` says what
an output has got; where a message can be is what makes it inductive: with its
writer, in the queue, in the hands of the goroutine, at the outputs, and in one
place only (`Queued`, `Handed`). The order needs that what was accepted
before a message's call began is done, in hand or ahead of it in the queue
(`Before`); `FlushedBefore` needs the stages of the handshake between `Flush` or
`Close` and the goroutine (`Handshake`): the WaitGroup's count is one until the
goroutine has drained the queue. There is one controller, as in the
runs: with two the property is false (see Findings).

**Log outputs** (`PartsProofs`). For `FileLog`, with any number of
goroutines, logs, days and troubles: who has passed the check and not yet written
(`Passed`) is counted beside the lines, so `LimitHeld` bounds their sum, and
`DaysHeld` the days of both; `LinesKept` needs that an open file is under its own
name, unless a deletion found it, by the beginning of its name or because it got an old
one's name meanwhile (`OpenFiles`), and
that a rotation never finds its new name in use (`FreeNameIsFree`). `RotatedFrozen` is an action
property: nobody writes to a rotated file. `ConnInv` of `ConnWriter` follows from `K_Inv`: with one caller,
which connections there are at each stage of its call (`Alone`), and with several,
that nothing was written, and nobody can have panicked later, as long as no dial
reached the field (`FirstRace`). `AliLog`: whoever waits for an answer holds the
mutex, the service has the buffer it has just stored, and until an answer is lost
no other buffer holds what the service has (`Delivered`); buffers keep the order
messages came in, a buffered message older than one the service has was stored
before it (`SeenBefore`), and callers on their way to flush account for what a
buffer has beyond its limit (`Errands`), from which `ServiceInv` follows.
It is assumed that topics and callers are finitely many and that
no caller is named like the free mutex.

**Address pool** (`ServerProofs`). `PoolKept`: the loop of `NewDHCP` yields exactly
the hosts of its block (`PoolExact`), and no operation loses or doubles one. It is
proved for octets of any width, so for the program's 32 bits too, where TLC checks
4: a block's signed beginning and end lie on the same side of zero
(`RangeOf`, `BlockEnds`), `toIP` reads either sign of a number as the same
four octets (`Bytes`, `AddressRead`), and a block's size divides half a word,
by the law of exponents (`PowSum`, `Sizes`). The provers do not know what `2 ^ k` is: `PowerAssumption`
states its definition, and TLC evaluates that in every run with a pool. Induction is
over a set, by the least element of its complement (`LeastElement`, `SetInduction`).

**Messages on a stream** (`ServerProofs`). The messages of which a part was written
lie end to end on one sequence of octets (`Laid`), the frames on their way
cut the part of it that was not read (`Cuts`), and the reader stands inside the
message after those it has received, with what it has gathered a copy of the
octets behind that message's beginning (`Position`); the writer's end is that of the last
message, inside it when a Write failed and nothing follows, or anywhere behind it on a
`shifted` stream (`Written`). `W_Inv` says that such a layout exists until the reader has all of `messages` and
the stream is shifted (`Past`), when nothing is said any more. `WireInv` alone is not
inductive: it says nothing of what is on its way. The single Read of a tunnel's first header
needs that the first frame holds both of its octets, so it is assumed that smux's frames
are longer than one octet; octets may have any number of values.

**Packets of the raw socket** (`PartsProofs`, from `PacketConstants`). `RawInv` is
inductive as it stands, since a packet is sent at once; what takes the proof is the
arithmetic. The recursive functions that add octets exist (`RecursionExists`, from
the induction over sets) and unfold. For a packet that fits nothing wraps, so the
sender's sum is the receiver's (`NoWrap`, `AddedSum`); the carries end, in the only
word that is congruent to the sum and zero for zero only (`CarryLess`, `Carried`), so the
checksum makes the sum a multiple of `Word - 1` (`Wrapper`). Equal segments at an even
distance add the same (`SameSegments`): that carries the sender's sums, over the
data it has at that time, to the receiver's, over the header and over the pseudo header and
the rest of the finished packet (`HeaderRight`, `PseudoRight`). Octets may have any number of
values from seven, and payloads any content. It is assumed that a payload is shorter than
65536 octets: `forwardUDP` reads its length from two octets (`udpforward.go:223`);
without that a length could wrap to one that looks right.

**Colors of the console** (`PartsProofs`, from `ColorConstants`: parameters are
natural numbers and the console begins with attributes there are). `ColorInv` speaks
between two Writes; `C_Inv` adds what holds inside of one. The buffers hold the
sequence that has begun (`Begun`), the text before it waits in `p` and is all that is
shown and not yet written, `last` is where it ends, and the count owed is that text
and the sequence (`Pending`). An ESC that begins nothing, or a failure, ends the comparison
and not the types and stages (`BufferStages`), from which the only panic follows: `last` is
negative only where `p` began after an ESC. Between Writes the mode that outputs
sequences forgets the one that has begun, the other does not, which is why `Begun` is
stated for each. The attributes need an argument of their own, an induction over the
codes of a sequence (`SameColors`, with the functions of `RecursionExists`): while no
light color has come, each part of the attributes has bits of its own (`Plain`), so
that taking them apart once or for every code comes to the same; after one
it would not, the foreground's part then having an intensity too.

**Only model-checked.** Liveness under fairness is out of the prover's reach; every
invariant and every action property of the runs is a theorem.

## Plan

Modelled and checked: the control plane, the data path, the client's
reconnection, framing and packets, and the logging library but for outputs
without state; proved: all their safety. Next, in this order:

1. An abstract flow table, and `UDPTunnel` shown to implement it where it does.
2. `Opennotr` with several clients and with crashes of the server.

## Not modelled

The contents of messages and of traffic, configuration files, the random choice
of a domain beyond its freshness, `Setup`, `Register` and the `Listen` functions
(they run once before the first connection), start-up, the time that calls take. On the data path: a message cut in two by a write that misses its
deadline half-way (what it does to those behind it is in `Framing`), the buffers of the
kernel (a frame is copied when its receiver takes it), connections closed in one
direction only, a remote address
used again before its old entry is deleted, and the insides of smux.

Of the logging library: a log file just opened whose Stat or whose counting of lines
fails (`file.go:172, 183-186`); the walk over old files, which judges all of them in one
step; outputs without state (console, smtp, slack, jianliao,
es: each message is one call), time stamps and their formatting
(`logger.go`), the table of `GetLogger`, the log service's management calls, which
the program never makes but for one GET, and generated code (`log.pb.go`).
