------------------------------ MODULE IPRange ------------------------------
(***************************************************************************)
(* The address arithmetic of opennotrd/core/dhcp.go: a CIDR block becomes  *)
(* the set of addresses a client may be given, computed with 32-bit signed *)
(* integers.                                                               *)
(*                                                                         *)
(* The width of an octet is a parameter: an address is four octets of      *)
(* OctetBits bits and the program's int32 is a signed integer of           *)
(* 4 * OctetBits bits.  The code has OctetBits = 8.                        *)
(***************************************************************************)
EXTENDS Integers

CONSTANTS OctetBits,   \* width of an octet, 8 in the program
          OctetSize    \* number of values of an octet, 256 in the program

ASSUME OctetAssumption ==
  /\ OctetBits \in Nat \ {0}
  /\ OctetSize \in Nat \ {0}
  /\ OctetSize = 2 ^ OctetBits

WordBits == 4 * OctetBits

\* What 2 ^ k is, of which the provers know nothing.
ASSUME PowerAssumption ==
  /\ 2 ^ 0 = 1
  /\ \A k \in 0 .. WordBits - 1 : 2 ^ (k + 1) = 2 * 2 ^ k

Octet == 0 .. OctetSize - 1
Address == Octet \X Octet \X Octet \X Octet

WordSize == OctetSize * OctetSize * OctetSize * OctetSize
MaxInt == (WordSize \div 2) - 1

\* What net.ParseCIDR accepts: an IPv4 address and the number of leading ones.
Block == [ip : Address, one : 0 .. WordBits]
-----------------------------------------------------------------------------
\* The value a signed integer of WordBits bits holds after an overflow.
Int32(x) == ((x + (WordSize \div 2)) % WordSize) - (WordSize \div 2)

ToInt(ip) ==
  Int32(((ip[1] * OctetSize + ip[2]) * OctetSize + ip[3]) * OctetSize + ip[4])

\* An arithmetic shift to the right followed by a conversion to byte.
Byte(x, shift) == (x \div shift) % OctetSize

toIP(x) == << Byte(x, OctetSize * OctetSize * OctetSize),
              Byte(x, OctetSize * OctetSize),
              Byte(x, OctetSize),
              Byte(x, 1) >>

\* begin is the configured address, end has every host bit set.  The shift
\* 1<<(32-one) - 1 is the mask of the low bits; for one = 0 it wraps to -1.
getIPRange(block) ==
  LET begin == ToInt(block.ip)
      hosts == 2 ^ (WordBits - block.one)
  IN  [begin |-> begin,
       end   |-> Int32(begin - (begin % hosts) + hosts - 1)]

\* Mutant: the loop includes the broadcast address.
Pool_LastIncluded(block) ==
  LET r == getIPRange(block)
  IN  {toIP(i) : i \in Int32(r.begin + 1) .. r.end}

\* The loop `for i := begin + 1; i < end; i++' over int32.
Pool(block) ==
  LET r == getIPRange(block)
  IN  {toIP(i) : i \in Int32(r.begin + 1) .. (r.end - 1)}
-----------------------------------------------------------------------------
(* Reference *)

\* The addresses a reader of the configuration expects: those of the block
\* that follow the configured (the server's own) address and precede the
\* broadcast address, by unsigned comparison.
Unsigned(ip) ==
  ((ip[1] * OctetSize + ip[2]) * OctetSize + ip[3]) * OctetSize + ip[4]

Hosts(block) ==
  LET size == 2 ^ (WordBits - block.one)
      own  == Unsigned(block.ip)
  IN  {a \in Address : /\ Unsigned(a) \div size = own \div size
                       /\ Unsigned(a) > own
                       /\ (Unsigned(a) + 1) % size # 0}

\* The two ways the signed arithmetic departs from the intent: a /0 block in
\* the lower half ends at int32 -1, below its beginning, and begin + 1
\* overflows at 127.255.255.255.
Wraps(block) ==
  \/ block.one = 0 /\ ToInt(block.ip) >= 0
  \/ ToInt(block.ip) = MaxInt
=============================================================================
