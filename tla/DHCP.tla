-------------------------------- MODULE DHCP --------------------------------
(***************************************************************************)
(* The virtual address pool of opennotrd (type DHCP of                     *)
(* opennotrd/core/dhcp.go).  SelectIP moves an arbitrary address from      *)
(* `free' to `inuse' (a Go map is iterated in no particular order),        *)
(* ReleaseIP moves it back.  Each operation runs under the mutex `rw'.     *)
(***************************************************************************)
EXTENDS IPRange, FiniteSets

CONSTANT Cidrs        \* the CIDR blocks the server may be configured with

ASSUME CidrAssumption == Cidrs \subseteq Block

VARIABLES cidr, free, inuse

D_vars == <<cidr, free, inuse>>
-----------------------------------------------------------------------------
(* Operations *)

NewDHCP ==
  /\ cidr \in Cidrs
  /\ free = Pool(cidr)
  /\ inuse = {}

\* Mutant: the address is handed out but stays in `free'.
SelectIP_KeepsFree(ip) ==
  /\ ip \in free
  /\ inuse' = inuse \cup {ip}
  /\ UNCHANGED <<cidr, free>>

SelectIP(ip) ==
  /\ ip \in free
  /\ free' = free \ {ip}
  /\ inuse' = inuse \cup {ip}
  /\ UNCHANGED cidr

\* SelectIP returns "no available ip".
SelectIPFails ==
  /\ free = {}
  /\ UNCHANGED D_vars

ReleaseIP(ip) ==
  /\ free' = free \cup {ip}
  /\ inuse' = inuse \ {ip}
  /\ UNCHANGED cidr

\* A caller releases an address it was given, possibly more than once.
D_Next ==
  \/ \E ip \in free : SelectIP(ip)
  \/ SelectIPFails
  \/ \E ip \in free \cup inuse : ReleaseIP(ip)

D_Spec == NewDHCP /\ [][D_Next]_D_vars
-----------------------------------------------------------------------------
(* Properties *)

\* Type invariant of the pool's fields.
D_TypeOK ==
  /\ cidr \in Cidrs
  /\ free \subseteq Address
  /\ inuse \subseteq Address

\* No address is both free and assigned, so SelectIP never returns an address
\* a client still holds.
Disjoint == free \cap inuse = {}

\* The pool never loses or invents an address: what is free or assigned is
\* exactly the hosts of the block, for every block whose arithmetic does not
\* wrap, whatever the order of SelectIP and ReleaseIP.
PoolIsHosts == ~Wraps(cidr) => free \cup inuse = Hosts(cidr)

\* The pool: its type, and every host of the block free or assigned, never both,
\* in every order of SelectIP and ReleaseIP (dhcp.go:17-60).
PoolInv == D_TypeOK /\ Disjoint /\ PoolIsHosts

=============================================================================
