----------------------------- MODULE RouteLease -----------------------------
(***************************************************************************)
(* What opennotrd promises its clients about public routes.                *)
(*                                                                         *)
(* A client joins with the set of routes it wants.  A route is leased to   *)
(* at most one client at a time.  A client is served only while it holds   *)
(* everything it asked for; when it leaves, or when one of its routes is   *)
(* refused, it returns what it holds, and it is gone only once it holds    *)
(* nothing.                                                                *)
(***************************************************************************)
EXTENDS FiniteSets

CONSTANTS Client, Route

VARIABLES phase,   \* Client -> idle, joining, serving, leaving, gone
          wanted,  \* Client -> the routes asked for
          leases   \* the <<client, route>> leased

leaseVars == <<phase, wanted, leases>>

Held(c) == {k \in Route : <<c, k>> \in leases}
Move(c, from, to) == phase[c] \in from /\ phase' = [phase EXCEPT ![c] = to]

LeaseInit ==
  /\ phase = [c \in Client |-> "idle"]
  /\ wanted = [c \in Client |-> {}]
  /\ leases = {}

Join(c) ==
  /\ Move(c, {"idle"}, "joining")
  /\ wanted'[c] \subseteq Route
  /\ wanted' = [wanted EXCEPT ![c] = wanted'[c]]
  /\ UNCHANGED leases

Lease(c, k) ==
  /\ phase[c] = "joining"
  /\ k \in wanted[c]
  /\ \A other \in Client : <<other, k>> \notin leases
  /\ leases' = leases \cup {<<c, k>>}
  /\ UNCHANGED <<phase, wanted>>

Serve(c) ==
  /\ Move(c, {"joining"}, "serving")
  /\ wanted[c] \subseteq Held(c)
  /\ UNCHANGED <<wanted, leases>>

Leave(c) ==
  /\ Move(c, {"joining", "serving"}, "leaving")
  /\ UNCHANGED <<wanted, leases>>

Return(c, k) ==
  /\ phase[c] = "leaving"
  /\ leases' = leases \ {<<c, k>>}
  /\ UNCHANGED <<phase, wanted>>

Depart(c) ==
  /\ Held(c) = {}
  /\ Move(c, {"idle", "joining", "leaving"}, "gone")
  /\ UNCHANGED <<wanted, leases>>

\* The server dies: nobody who had come holds anything any more.
Collapse ==
  /\ phase' \in [Client -> {"idle", "gone"}]
  /\ \A c \in Client : phase'[c] = "idle" => phase[c] = "idle"
  /\ wanted' = [c \in Client |-> {}]
  /\ leases' = {}

LeaseNext ==
  \/ \E c \in Client :
       \/ Join(c)
       \/ \E k \in Route : Lease(c, k) \/ Return(c, k)
       \/ Serve(c) \/ Leave(c) \/ Depart(c)
  \/ Collapse

LeaseSpec == LeaseInit /\ [][LeaseNext]_leaseVars

\* No route is leased to two clients: what AddProxy's check of the routes map
\* is for.
Exclusive ==
  \A c, d \in Client : c # d => Held(c) \cap Held(d) = {}

\* A client being served holds every route it asked for.
Complete == \A c \in Client : phase[c] = "serving" => wanted[c] \subseteq Held(c)
=============================================================================
