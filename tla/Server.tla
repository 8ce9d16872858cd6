------------------------------- MODULE Server -------------------------------
(***************************************************************************)
(* The control plane of opennotrd: the life of a client connection in      *)
(* Server.onConn (opennotrd/core/server.go), over the address pool (DHCP), *)
(* the plugin manager (PluginManager), the session table (session.go) and  *)
(* the resolver (resolver.go).                                             *)
(*                                                                         *)
(* Every accepted connection is served by a goroutine of its own; pc says  *)
(* where it stands:                                                        *)
(*                                                                         *)
(*   idle -> auth -> select -> resolve -> add -> reply -> mux -> serve     *)
(*                                         |       |                |      *)
(*                                         +-------+--> unwind <- delsess  *)
(*                                                        |                *)
(*                                                      closed             *)
(*                                                                         *)
(* The deferred DelProxy calls are the stack `defers'.  A TCP connection   *)
(* may die at any time (link); the multiplexer notices only when its       *)
(* keepalive expires, and not while its receive buffer is full of what     *)
(* public peers do not take (mux).  The process may crash and be restarted *)
(* MaxCrashes times: everything but the gateway and etcd is lost.          *)
(***************************************************************************)
EXTENDS DHCP, PluginManager

CONSTANTS
  NoVip,        \* the vip of a connection that has none
  FreshDomain,  \* the values randomDomain may return
  Requests,     \* the [Domain, Forward] a client may send
  HasResolver,  \* whether etcd endpoints are configured
  MaxCrashes    \* bound on the crashes of the server process

NoDomain == ""

Forwards == [Protocol : Protocol, Ports : SUBSET (Port \X LocalPort)]
AuthRequest == [Domain : DomainName \cup {NoDomain}, Forward : Seq(Forwards)]

ASSUME ServerAssumption ==
  /\ NoVip \notin Address
  /\ NoDomain \notin DomainName
  /\ FreshDomain \subseteq DomainName
  /\ Requests \subseteq AuthRequest
  /\ HasResolver \in BOOLEAN
  /\ MaxCrashes \in Nat

VARIABLES
  pc,        \* where the goroutine of a connection stands
  link,      \* the TCP connection: "none", "up" or "down"
  auth,      \* the request read, with the domain it was given
  vip,       \* the address selected (kept after the end, for reference)
  rest,      \* the forwards still to be added
  defers,    \* items whose DelProxy is deferred, first deferred first
  mux,       \* the smux session: "none", "open", "full" or "closed"
  sessions,  \* SessionManager.sessions, as a set of [vip, conn]
  records,   \* external: the domains written to etcd
  crashes

connVars == <<pc, link, auth, vip, rest, defers, mux>>
serverVars == <<connVars, sessions, records, crashes>>
vars == <<D_vars, P_vars, serverVars>>

Item == Meta(Address)

\* auth := proto.C2SAuth{}
ZeroAuth == [Domain |-> NoDomain, Forward |-> <<>>]

Init ==
  /\ NewDHCP
  /\ P_Init
  /\ pc = [c \in Conn |-> "idle"]
  /\ link = [c \in Conn |-> "none"]
  /\ auth = [c \in Conn |-> ZeroAuth]
  /\ vip = [c \in Conn |-> NoVip]
  /\ rest = [c \in Conn |-> <<>>]
  /\ defers = [c \in Conn |-> <<>>]
  /\ mux = [c \in Conn |-> "none"]
  /\ sessions = {}
  /\ records = {}
  /\ crashes = 0
-----------------------------------------------------------------------------
Goto(c, from, to) == pc[c] = from /\ pc' = [pc EXCEPT ![c] = to]

(* Authentication *)

Accept(c) ==
  /\ Goto(c, "idle", "auth")
  /\ link' = [link EXCEPT ![c] = "up"]
  /\ UNCHANGED <<D_vars, P_vars, auth, vip, rest, defers, mux, sessions,
                 records, crashes>>

\* The domain is the client's, or a random one nobody has (it is derived from
\* the time in nanoseconds).
DomainOf_AsSent(c, domain) == {domain}   \* mutant: an empty domain stays

DomainOf(c, domain) ==
  IF domain # NoDomain THEN {domain}
  ELSE {d \in FreshDomain : \A other \in Conn : auth[other].Domain # d}

ReadAuth(c) ==
  /\ Goto(c, "auth", "select")
  /\ link[c] = "up"
  /\ \E req \in Requests : \E d \in DomainOf(c, req.Domain) :
       /\ auth' = [auth EXCEPT ![c] = [req EXCEPT !.Domain = d]]
       /\ rest' = [rest EXCEPT ![c] = req.Forward]
  /\ UNCHANGED <<D_vars, P_vars, link, vip, defers, mux, sessions, records,
                 crashes>>

\* `defer conn.Close()' and the return of onConn.
Closed(c, from) ==
  /\ Goto(c, from, "closed")
  /\ link' = [link EXCEPT ![c] = "down"]

\* ReadJSON fails or the key is wrong.
AuthFails(c) ==
  /\ Closed(c, "auth")
  /\ UNCHANGED <<D_vars, P_vars, auth, vip, rest, defers, mux, sessions,
                 records, crashes>>
-----------------------------------------------------------------------------
(* Address and domain *)

SelectVip(c) ==
  /\ Goto(c, "select", IF HasResolver THEN "resolve" ELSE "add")
  /\ \E ip \in free : SelectIP(ip) /\ vip' = [vip EXCEPT ![c] = ip]
  /\ UNCHANGED <<P_vars, link, auth, rest, defers, mux, sessions, records,
                 crashes>>

SelectVipFails(c) ==
  /\ Closed(c, "select")
  /\ SelectIPFails
  /\ UNCHANGED <<P_vars, auth, vip, rest, defers, mux, sessions, records,
                 crashes>>

ApplyDomain(c) ==
  /\ Goto(c, "resolve", "add")
  /\ records' = records \cup {auth[c].Domain}
  /\ UNCHANGED <<D_vars, P_vars, link, auth, vip, rest, defers, mux, sessions,
                 crashes>>

ApplyDomainFails(c) ==
  /\ Closed(c, "resolve")
  /\ UNCHANGED <<D_vars, P_vars, auth, vip, rest, defers, mux, sessions,
                 records, crashes>>
-----------------------------------------------------------------------------
(* Proxies *)

NewItem(c, p) ==
  [conn |-> c, Protocol |-> Head(rest[c]).Protocol, From |-> p[1],
   To |-> <<vip[c], p[2]>>, Domain |-> auth[c].Domain]

\* What the loops have left once port p of the first forward is taken.
Without(forwards, p) ==
  <<[Head(forwards) EXCEPT !.Ports = @ \ {p}]>> \o Tail(forwards)

\* The ports of a forward are a map, taken in any order.
AddForward(c) ==
  /\ pc[c] = "add"
  /\ rest[c] # <<>>
  /\ \E p \in Head(rest[c]).Ports :
       /\ AddProxy(NewItem(c, p))
       /\ defers' = [defers EXCEPT ![c] = Append(@, NewItem(c, p))]
       /\ rest' = [rest EXCEPT ![c] = Without(@, p)]
  /\ UNCHANGED <<D_vars, pc, link, auth, vip, mux, sessions, records, crashes>>

\* Mutant: a refused proxy is skipped instead of ending the connection.
AddForwardFails_Skips(c) ==
  /\ pc[c] = "add"
  /\ rest[c] # <<>>
  /\ \E p \in Head(rest[c]).Ports :
       /\ AddProxyFails(NewItem(c, p))
       /\ rest' = [rest EXCEPT ![c] = Without(@, p)]
  /\ UNCHANGED <<D_vars, pc, link, auth, vip, defers, mux, sessions, records,
                 crashes>>

AddForwardFails(c) ==
  /\ rest[c] # <<>>
  /\ \E p \in Head(rest[c]).Ports : AddProxyFails(NewItem(c, p))
  /\ Goto(c, "add", "unwind")
  /\ UNCHANGED <<D_vars, link, auth, vip, rest, defers, mux, sessions,
                 records, crashes>>

NextForward(c) ==
  /\ pc[c] = "add"
  /\ rest[c] # <<>>
  /\ Head(rest[c]).Ports = {}
  /\ rest' = [rest EXCEPT ![c] = Tail(@)]
  /\ UNCHANGED <<D_vars, P_vars, pc, link, auth, vip, defers, mux, sessions,
                 records, crashes>>

AllAdded(c) ==
  /\ rest[c] = <<>>
  /\ Goto(c, "add", "reply")
  /\ UNCHANGED <<D_vars, P_vars, link, auth, vip, rest, defers, mux, sessions,
                 records, crashes>>
-----------------------------------------------------------------------------
(* Session *)

\* A write to a dead connection may still succeed: the kernel buffers it.
Reply(c) ==
  /\ Goto(c, "reply", "mux")
  /\ UNCHANGED <<D_vars, P_vars, link, auth, vip, rest, defers, mux, sessions,
                 records, crashes>>

ReplyFails(c) ==
  /\ link[c] = "down"
  /\ Goto(c, "reply", "unwind")
  /\ UNCHANGED <<D_vars, P_vars, link, auth, vip, rest, defers, mux, sessions,
                 records, crashes>>

\* sync.Map.Store: the entry of the same vip, if any, is replaced.
AddSession(c) ==
  sessions' = {s \in sessions : s.vip # vip[c]} \cup
                {[vip |-> vip[c], conn |-> c]}

DeleteSession(c) == sessions' = {s \in sessions : s.vip # vip[c]}

\* smux.Server with the default configuration cannot fail.
OpenSession(c) ==
  /\ Goto(c, "mux", "serve")
  /\ mux' = [mux EXCEPT ![c] = "open"]
  /\ AddSession(c)
  /\ UNCHANGED <<D_vars, P_vars, link, auth, vip, rest, defers, records,
                 crashes>>

\* The ticker finds the multiplexer closed; the last deferred call runs first.
SessionEnds(c) ==
  /\ mux[c] = "closed"
  /\ Goto(c, "serve", "delsess")
  /\ UNCHANGED <<D_vars, P_vars, link, auth, vip, rest, defers, mux, sessions,
                 records, crashes>>

\* Mutant: the deferred DelProxy calls are forgotten.
EndSession_KeepsProxies(c) ==
  /\ Closed(c, "delsess")
  /\ DeleteSession(c)
  /\ UNCHANGED <<D_vars, P_vars, auth, vip, rest, defers, mux, records, crashes>>

EndSession(c) ==
  /\ Goto(c, "delsess", "unwind")
  /\ DeleteSession(c)
  /\ UNCHANGED <<D_vars, P_vars, link, auth, vip, rest, defers, mux, records,
                 crashes>>

Unwind(c) ==
  /\ pc[c] = "unwind"
  /\ defers[c] # <<>>
  /\ DelProxy(defers[c][Len(defers[c])])
  /\ defers' = [defers EXCEPT ![c] = SubSeq(@, 1, Len(@) - 1)]
  /\ UNCHANGED <<D_vars, pc, link, auth, vip, rest, mux, sessions, records,
                 crashes>>

\* Mutant: the address is released at once, as the comments on dhcp suggest.
Unwound_ReleasesVip(c) ==
  /\ defers[c] = <<>>
  /\ Closed(c, "unwind")
  /\ ReleaseIP(vip[c])
  /\ vip' = [vip EXCEPT ![c] = NoVip]
  /\ UNCHANGED <<P_vars, auth, rest, defers, mux, sessions, records, crashes>>

Unwound(c) ==
  /\ defers[c] = <<>>
  /\ Closed(c, "unwind")
  /\ UNCHANGED <<D_vars, P_vars, auth, vip, rest, defers, mux, sessions,
                 records, crashes>>
-----------------------------------------------------------------------------
(* The environment *)

LinkDies(c) ==
  /\ link[c] = "up"
  /\ link' = [link EXCEPT ![c] = "down"]
  /\ UNCHANGED <<D_vars, P_vars, pc, auth, vip, rest, defers, mux, sessions,
                 records, crashes>>

\* External (smux).  The client's data stays in the session's receive buffer
\* until a proxy's copy has written it to a public peer (tcpforward.go:132, no
\* deadline); while the buffer is full nothing is read from the connection.
\* What the kernel has received of it counts as read when the link dies.
BufferFills(c) ==
  /\ mux[c] = "open" /\ link[c] = "up"
  /\ mux' = [mux EXCEPT ![c] = "full"]
  /\ UNCHANGED <<D_vars, P_vars, pc, link, auth, vip, rest, defers, sessions,
                 records, crashes>>

BufferDrains(c) ==
  /\ mux[c] = "full"
  /\ mux' = [mux EXCEPT ![c] = "open"]
  /\ UNCHANGED <<D_vars, P_vars, pc, link, auth, vip, rest, defers, sessions,
                 records, crashes>>

\* No frame before the keepalive timeout closes a session that has room for one.
KeepaliveExpires(c) ==
  /\ mux[c] = "open"
  /\ link[c] = "down"
  /\ mux' = [mux EXCEPT ![c] = "closed"]
  /\ UNCHANGED <<D_vars, P_vars, pc, link, auth, vip, rest, defers, sessions,
                 records, crashes>>

Multiplexer(c) == BufferFills(c) \/ BufferDrains(c) \/ KeepaliveExpires(c)

Forgotten(f, zero) == [c \in Conn |-> IF pc[c] = "idle" THEN f[c] ELSE zero]

\* The process dies (a panic in publicIP, for one) and is started again.
\* What reached the wire towards the gateway may still arrive.
Crash ==
  /\ crashes < MaxCrashes
  /\ crashes' = crashes + 1
  /\ free' = Pool(cidr) /\ inuse' = {} /\ UNCHANGED cidr
  /\ routes' = {}
  /\ listening' = {} /\ accepting' = {}
  /\ spawned' = {} /\ parked' = {} /\ signalled' = {}
  /\ UNCHANGED gatewayVars
  /\ pc' = Forgotten(pc, "closed")
  /\ link' = Forgotten(link, "down")
  /\ auth' = Forgotten(auth, ZeroAuth)
  /\ vip' = Forgotten(vip, NoVip)
  /\ rest' = Forgotten(rest, <<>>)
  /\ defers' = Forgotten(defers, <<>>)
  /\ mux' = Forgotten(mux, "none")
  /\ sessions' = {}
  /\ UNCHANGED records
-----------------------------------------------------------------------------
\* The steps a connection's goroutine takes by itself, without waiting for
\* the client or for etcd.
Progress(c) ==
  \/ SelectVip(c) \/ SelectVipFails(c)
  \/ AddForward(c) \/ AddForwardFails(c) \/ NextForward(c) \/ AllAdded(c)
  \/ Reply(c) \/ ReplyFails(c) \/ OpenSession(c)
  \/ SessionEnds(c) \/ EndSession(c) \/ Unwind(c) \/ Unwound(c)

Step(c) ==
  \/ Accept(c) \/ ReadAuth(c) \/ AuthFails(c)
  \/ ApplyDomain(c) \/ ApplyDomainFails(c)
  \/ Progress(c)
  \/ LinkDies(c) \/ Multiplexer(c)

Background == (Goroutines \/ Gateway) /\ UNCHANGED <<D_vars, serverVars>>

Next == (\E c \in Conn : Step(c)) \/ Background \/ Crash

Spec == Init /\ [][Next]_vars
-----------------------------------------------------------------------------
(* Safety *)

\* Type invariant, by component.
ProxyTypeOK ==
  /\ routes \subseteq Item
  /\ listening \subseteq Item /\ accepting \subseteq Item
  /\ spawned \subseteq Item /\ parked \subseteq Item /\ signalled \subseteq Item
  /\ upstream \subseteq [Domain : DomainName, Protocol : Protocol,
                         To : Address \X LocalPort]
  /\ posts \subseteq Item
  /\ deletes \subseteq [Domain : DomainName, Protocol : Protocol]

ConnTypeOK ==
  /\ pc \in [Conn -> {"idle", "auth", "select", "resolve", "add", "reply",
                      "mux", "serve", "delsess", "unwind", "closed"}]
  /\ link \in [Conn -> {"none", "up", "down"}]
  /\ auth \in [Conn -> AuthRequest]
  /\ vip \in [Conn -> Address \cup {NoVip}]
  /\ rest \in [Conn -> Seq(Forwards)]
  /\ defers \in [Conn -> Seq(Item)]
  /\ mux \in [Conn -> {"none", "open", "full", "closed"}]

TypeOK ==
  /\ D_TypeOK
  /\ ProxyTypeOK
  /\ ConnTypeOK
  /\ sessions \subseteq [vip : Address, conn : Conn]
  /\ records \subseteq DomainName
  /\ crashes \in 0 .. MaxCrashes

\* The routes map and the deferred calls of the connections agree: every
\* registered item will be deleted by the connection that added it, and a
\* deferred DelProxy (which deletes by key) deletes that item and no other.
RouteOwner ==
  /\ \A r, s \in routes : identify(r) = identify(s) => r = s
  /\ \A r \in routes : \E n \in DOMAIN defers[r.conn] : defers[r.conn][n] = r
  /\ \A c \in Conn : \A n \in DOMAIN defers[c] :
       /\ defers[c][n] \in routes
       /\ defers[c][n].conn = c
       /\ \A m \in DOMAIN defers[c] : defers[c][m] = defers[c][n] => m = n

\* A client that is sent the reply, and any client being served, has every
\* proxy it asked for: onConn never goes on with a part of them.
ServedFully ==
  \A c \in Conn : pc[c] \in {"reply", "mux", "serve"} =>
    \A n \in DOMAIN auth[c].Forward : \A p \in auth[c].Forward[n].Ports :
      [conn |-> c, Protocol |-> auth[c].Forward[n].Protocol, From |-> p[1],
       To |-> <<vip[c], p[2]>>, Domain |-> auth[c].Domain] \in routes

\* A connection that is over has left nothing in the server's two tables.
CleanExit ==
  \A c \in Conn : pc[c] = "closed" =>
    /\ \A r \in routes : r.conn # c
    /\ \A s \in sessions : s.conn # c

\* Connections that hold an address hold different ones, all of them assigned,
\* so no client's entry of the session table, which is keyed by address, is
\* replaced or deleted by another: a connection is in the table exactly while
\* it is served, and the table has no other entry.
VipExclusive ==
  /\ \A c \in Conn : vip[c] # NoVip => vip[c] \in inuse
  /\ \A c, d \in Conn : c # d /\ vip[c] # NoVip => vip[c] # vip[d]

SessionsExact ==
  sessions = {[vip |-> vip[c], conn |-> c] :
                c \in {d \in Conn : pc[d] \in {"serve", "delsess"}}}

\* Traffic never reaches a stranger: whoever has a session under the address
\* an open listener forwards to is the client that asked for the listener,
\* even when the listener outlives the proxy because the signal was dropped.
ListenerIsolation ==
  \A i \in listening : \A s \in sessions : s.vip = i.To[1] => s.conn = i.conn

\* The same for the gateway, whose entries arrive late and are removed late or
\* never: an upstream of a domain leads to no client of another domain.
UpstreamIsolation ==
  \A u \in upstream : \A s \in sessions :
    s.vip = u.To[1] => auth[s.conn].Domain = u.Domain

\* Nobody closes the socket of a registered proxy whose loop still runs, and
\* nobody but its own recycler is ever told to.
ListenerKept ==
  \A i \in routes :
    i.Protocol \in Listening => i \notin signalled /\ (i \in accepting => i \in listening)

\* What connections hold at each stage (for the proofs).
Stages ==
  \A c \in Conn :
    /\ pc[c] \notin {"idle", "auth", "closed"} => auth[c].Domain \in DomainName
    /\ pc[c] \in {"idle", "auth", "select"} => vip[c] = NoVip
    /\ pc[c] \notin {"idle", "auth", "select", "closed"} => vip[c] \in Address
    /\ pc[c] \in {"idle", "auth", "select", "resolve", "closed"} => defers[c] = <<>>

\* A listener leads to the address of the client that asked for it.
TargetsOwned == \A i \in listening : i.To[1] = vip[i.conn]

\* The inductive invariant.
IInv ==
  /\ TypeOK
  /\ Disjoint
  /\ Stages
  /\ RouteOwner
  /\ VipExclusive
  /\ SessionsExact
  /\ TargetsOwned
-----------------------------------------------------------------------------
(* Refinement: onConn implements the leasing of routes *)

phaseOf ==
  [c \in Conn |->
    CASE pc[c] \in {"idle", "auth"} -> "idle"
      [] pc[c] \in {"select", "resolve", "add", "reply", "mux"} -> "joining"
      [] pc[c] = "serve" -> "serving"
      [] pc[c] \in {"delsess", "unwind"} -> "leaving"
      [] pc[c] = "closed" -> "gone"]

wantedOf ==
  [c \in Conn |->
    UNION {{<<f.Protocol, p[1], auth[c].Domain>> : p \in f.Ports} :
           f \in {auth[c].Forward[n] : n \in DOMAIN auth[c].Forward}}]

leasesOf == {<<r.conn, identify(r)>> : r \in routes}

RL == INSTANCE RouteLease WITH
        Client <- Conn, Route <- Protocol \X Port \X DomainName,
        phase <- phaseOf, wanted <- wantedOf, leases <- leasesOf

\* Every behaviour of the server is a behaviour of the leasing specification.
LeasesRoutes == RL!LeaseInit /\ [][RL!LeaseNext]_<<phaseOf, wantedOf, leasesOf>>
-----------------------------------------------------------------------------
(* Liveness *)

\* The Go scheduler runs every goroutine that can run; smux's keepalive timer
\* fires; a read of a dead connection fails (Go enables TCP keepalive on
\* accepted connections).  Nothing is assumed of the client, the gateway or
\* etcd, nor that a public peer ever takes what the receive buffer holds.
Fairness ==
  /\ \A c \in Conn : /\ WF_vars(Progress(c))
                     /\ WF_vars(KeepaliveExpires(c))
                     /\ WF_vars(link[c] = "down" /\ AuthFails(c))
  /\ WF_vars((\E i \in spawned : RecyclerSelects(i)) /\ UNCHANGED <<D_vars, serverVars>>)
  /\ WF_vars((\E i \in signalled : RecyclerCloses(i)) /\ UNCHANGED <<D_vars, serverVars>>)
  /\ WF_vars((\E i \in accepting : LoopEndsOnClose(i)) /\ UNCHANGED <<D_vars, serverVars>>)

FairSpec == Spec /\ Fairness

\* A connection whose TCP link died is reclaimed completely, whichever step it
\* had reached and wherever its proxies' loops and recyclers stand, unless it
\* waits for etcd or its multiplexer's buffer is full: mux.IsClosed (server.go:170)
\* then stays false as long as a public peer takes nothing, and it is reclaimed
\* once the peer does.
DeadLinkReclaimed ==
  \A c \in Conn :
    link[c] = "down" /\ mux[c] # "full" ~> pc[c] \in {"closed", "resolve"}
=============================================================================
