---------------------------- MODULE PluginManager ----------------------------
(***************************************************************************)
(* The plugin manager of opennotrd (opennotrd/plugin/plugin.go) and what   *)
(* its plugins leave running behind it:                                    *)
(*                                                                         *)
(*  - tcpproxy and udpproxy open a listening socket and start an           *)
(*    accept/read loop and a "recycler" goroutine, which waits for         *)
(*    StopProxy's signal and closes the socket;                            *)
(*  - restyproxy posts an upstream to the HTTP gateway from a goroutine    *)
(*    of its own and deletes it with a synchronous request;                *)
(*  - dummy does nothing.                                                  *)
(*                                                                         *)
(* AddProxy and DelProxy run under one mutex, so each is one step.  The    *)
(* goroutines and the requests in flight to the gateway take steps of      *)
(* their own.  The maps `routes' and `upstream' are sets of entries that   *)
(* carry their keys.                                                       *)
(***************************************************************************)
EXTENDS Naturals, Sequences

CONSTANTS
  Conn,          \* client connections accepted by the server
  DomainName,    \* domains a client may have
  Protocol,      \* protocol names a client may ask for
  Port,          \* public ports a client may ask for
  AnyPort,       \* port 0: the kernel picks a port
  LocalPort,     \* local ports a client may ask for, as it wrote them
  BadLocalPort,  \* those net.SplitHostPort rejects after "vip:"
  ForeignPorts   \* <<protocol, port>> bound by other processes of the host

ASSUME PortAssumption ==
  /\ AnyPort \in Port
  /\ BadLocalPort \subseteq LocalPort
  /\ ForeignPorts \subseteq {"tcp", "udp"} \X (Port \ {AnyPort})

Listening == {"tcp", "udp"}
Resty == {"http", "https", "h2c"}
Registered == Listening \cup Resty \cup {"dummy"}

\* A PluginMeta is identified by its address, so it names its connection.
\* To is <<vip, local port>>.
Meta(Vip) == [conn : Conn, Protocol : Protocol, From : Port,
              To : Vip \X LocalPort, Domain : DomainName]

VARIABLES
  routes,     \* PluginManager.routes: the registered items
  listening,  \* items whose socket is open
  accepting,  \* items whose accept/read loop runs
  spawned,    \* items whose recycler has not reached its select
  parked,     \* items whose recycler waits in its select
  signalled,  \* items whose recycler received the signal
  upstream,   \* external: the gateway's (Domain, Protocol) -> To
  posts,      \* items whose POST is in flight
  deletes     \* DELETEs in flight that nobody waits for any more

goroutineVars == <<listening, accepting, spawned, parked, signalled>>
gatewayVars == <<upstream, posts, deletes>>
proxyVars == <<goroutineVars, gatewayVars>>
P_vars == <<routes, proxyVars>>

identify(item) == <<item.Protocol, item.From, item.Domain>>
hostKey(item) == [Domain |-> item.Domain, Protocol |-> item.Protocol]

P_Init ==
  /\ routes = {}
  /\ listening = {} /\ accepting = {}
  /\ spawned = {} /\ parked = {} /\ signalled = {}
  /\ upstream = {} /\ posts = {} /\ deletes = {}
-----------------------------------------------------------------------------
(* RunProxy *)

PortBusy(item) ==
  /\ item.From # AnyPort
  /\ \/ <<item.Protocol, item.From>> \in ForeignPorts
     \/ \E other \in listening : /\ other.Protocol = item.Protocol
                                 /\ other.From = item.From

\* tcpproxy and udpproxy: net.Listen, then the two goroutines.
RunListener(item) ==
  /\ item.Protocol \in Listening
  /\ ~PortBusy(item)
  /\ listening' = listening \cup {item}
  /\ accepting' = accepting \cup {item}
  /\ spawned' = spawned \cup {item}
  /\ UNCHANGED <<parked, signalled, gatewayVars>>

\* restyproxy: the POST leaves from a goroutine nobody waits for.
RunResty(item) ==
  /\ item.Protocol \in Resty
  /\ item.To[2] \notin BadLocalPort
  /\ posts' = posts \cup {item}
  /\ UNCHANGED <<goroutineVars, upstream, deletes>>

RunDummy(item) ==
  /\ item.Protocol = "dummy"
  /\ UNCHANGED proxyVars

RunProxy(item) == RunListener(item) \/ RunResty(item) \/ RunDummy(item)

RunProxyFails(item) ==
  \/ item.Protocol \in Listening /\ PortBusy(item)
  \/ item.Protocol \in Resty /\ item.To[2] \in BadLocalPort
-----------------------------------------------------------------------------
(* StopProxy *)

\* Mutant: the send blocks until the recycler receives.
StopListener_Blocks(item) ==
  /\ item.Protocol \in Listening
  /\ item \in parked
  /\ parked' = parked \ {item}
  /\ signalled' = signalled \cup {item}
  /\ UNCHANGED <<listening, accepting, spawned, gatewayVars>>

\* Mutant: recyclers are signalled by public port, not by item.
StopListener_ByPort(item) ==
  LET same == {p \in parked : p.Protocol = item.Protocol /\ p.From = item.From}
  IN  /\ item.Protocol \in Listening
      /\ parked' = parked \ same
      /\ signalled' = signalled \cup same
      /\ UNCHANGED <<listening, accepting, spawned, gatewayVars>>

\* A non-blocking send on an unbuffered channel: it is received only if the
\* recycler is already waiting and the loop has not ended; otherwise the
\* signal is dropped and nobody sends it again.
StopListener(item) ==
  /\ item.Protocol \in Listening
  /\ IF item \in parked
     THEN /\ parked' = parked \ {item}
          /\ signalled' = signalled \cup {item}
     ELSE UNCHANGED <<parked, signalled>>
  /\ UNCHANGED <<listening, accepting, spawned, gatewayVars>>

Forget(key) == {u \in upstream : hostKey(u) # key}

\* The DELETE is applied, or lost, or applied after its ten seconds' timeout:
\* the caller only logs the difference.
StopResty(item) ==
  /\ item.Protocol \in Resty
  /\ \/ upstream' = Forget(hostKey(item)) /\ UNCHANGED deletes
     \/ UNCHANGED <<upstream, deletes>>
     \/ deletes' = deletes \cup {hostKey(item)} /\ UNCHANGED upstream
  /\ UNCHANGED <<goroutineVars, posts>>

StopDummy(item) ==
  /\ item.Protocol = "dummy"
  /\ UNCHANGED proxyVars

StopProxy(item) == StopListener(item) \/ StopResty(item) \/ StopDummy(item)
-----------------------------------------------------------------------------
(* PluginManager *)

InUse_Never(item) == FALSE   \* mutant: the routes map is not consulted

InUse(item) == \E other \in routes : identify(other) = identify(item)

AddProxy(item) ==
  /\ ~InUse(item)
  /\ RunProxy(item)
  /\ routes' = routes \cup {item}

AddProxyFails(item) ==
  /\ \/ InUse(item)
     \/ item.Protocol \notin Registered
     \/ RunProxyFails(item)
  /\ UNCHANGED P_vars

\* Mutant: the proxy is stopped, the entry stays.
DelProxy_KeepsRoute(item) == StopProxy(item) /\ UNCHANGED routes

\* Callers delete what AddProxy accepted, so the protocol is registered.
DelProxy(item) ==
  /\ StopProxy(item)
  /\ routes' = {other \in routes : identify(other) # identify(item)}
-----------------------------------------------------------------------------
(* The goroutines the listeners leave behind *)

\* The recycler reaches its select: it waits, or returns because the loop has
\* closed `fin' (tcp) or cancelled `ctx' (udp) already.
RecyclerSelects(item) ==
  /\ item \in spawned
  /\ spawned' = spawned \ {item}
  /\ parked' = IF item \in accepting THEN parked \cup {item} ELSE parked
  /\ UNCHANGED <<routes, listening, accepting, signalled, gatewayVars>>

RecyclerCloses(item) ==
  /\ item \in signalled
  /\ signalled' = signalled \ {item}
  /\ listening' = listening \ {item}
  /\ UNCHANGED <<routes, accepting, spawned, parked, gatewayVars>>

\* The loop leaves on an error, closes `fin' (which ends a waiting recycler)
\* and closes the socket.
LoopEnds(item) ==
  /\ accepting' = accepting \ {item}
  /\ parked' = parked \ {item}
  /\ listening' = listening \ {item}
  /\ UNCHANGED <<routes, spawned, signalled, gatewayVars>>

LoopEndsOnClose(item) ==
  /\ item \in accepting \ listening
  /\ LoopEnds(item)

\* Accept fails for want of descriptors, or udpproxy cannot resolve or dial
\* the backend: the loop ends although the item is still registered.
LoopFails(item) ==
  /\ item \in accepting \cap listening
  /\ LoopEnds(item)
-----------------------------------------------------------------------------
(* External: the gateway receives requests in any order, or never *)

PostArrives(item) ==
  /\ item \in posts
  /\ posts' = posts \ {item}
  /\ upstream' = Forget(hostKey(item)) \cup
       {[Domain |-> item.Domain, Protocol |-> item.Protocol, To |-> item.To]}
  /\ UNCHANGED <<routes, goroutineVars, deletes>>

PostLost(item) ==
  /\ item \in posts
  /\ posts' = posts \ {item}
  /\ UNCHANGED <<routes, goroutineVars, upstream, deletes>>

DeleteArrives(key) ==
  /\ key \in deletes
  /\ deletes' = deletes \ {key}
  /\ upstream' = Forget(key)
  /\ UNCHANGED <<routes, goroutineVars, posts>>

Goroutines ==
  \/ \E item \in spawned : RecyclerSelects(item)
  \/ \E item \in signalled : RecyclerCloses(item)
  \/ \E item \in accepting : LoopEndsOnClose(item) \/ LoopFails(item)

Gateway ==
  \/ \E item \in posts : PostArrives(item) \/ PostLost(item)
  \/ \E key \in deletes : DeleteArrives(key)
=============================================================================
