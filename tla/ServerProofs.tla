---------------------------- MODULE ServerProofs ----------------------------
(***************************************************************************)
(* Theorems about Server, about the client that connects to it again       *)
(* (Opennotr), for every set of connections, pool, requests and ports, and *)
(* about the messages on the streams between them (Framing), for octets of *)
(* every base, every set of bodies and every size of a frame.              *)
(***************************************************************************)
EXTENDS Opennotr, Framing, FiniteSetTheorems, SequenceTheorems, WellFoundedInduction, TLAPS

USE DEF D_vars, P_vars, proxyVars, goroutineVars, gatewayVars, connVars,
        serverVars, vars
-----------------------------------------------------------------------------
(* Induction *)

\* The least element of a set of numbers: induction without an operator.
LEMMA LeastElement ==
  ASSUME NEW S, S \subseteq Nat, S # {}
  PROVE  \E m \in S : \A k \in S : m <= k
<1>1. PICK m \in S : \A k \in S : ~(<<k, m>> \in OpToRel(<, Nat))
  BY NatLessThanWellFounded, WFMin
<1>2. \A k \in S : <<k, m>> \in Nat \X Nat /\ <<k, m>>[1] = k /\ <<k, m>>[2] = m
  OBVIOUS
<1>3. \A k \in S : ~(k < m)
  BY <1>1, <1>2 DEF OpToRel
<1>4. m \in Nat /\ \A k \in S : k \in Nat
  BY <1>1
<1> QED
  BY <1>3, <1>4

\* Induction over the numbers of a set.
LEMMA SetInduction ==
  ASSUME NEW S, NEW n, n \in Nat, 0 \in S, \A k \in 0 .. n - 1 : k \in S => k + 1 \in S
  PROVE  \A k \in 0 .. n : k \in S
<1> SUFFICES ASSUME NEW x \in 0 .. n, x \notin S PROVE FALSE
  OBVIOUS
<1> DEFINE T == {k \in 0 .. n : k \notin S}
<1>1. T \subseteq Nat /\ T # {}
  OBVIOUS
<1>2. PICK m \in T : \A k \in T : m <= k
  BY ONLY <1>1, LeastElement
<1>3. m \in 0 .. n /\ m \notin S /\ m # 0
  OBVIOUS
<1>4. m - 1 \in 0 .. n - 1 /\ ~(m <= m - 1) /\ (m - 1) + 1 = m /\ m - 1 \in 0 .. n
  BY ONLY <1>3, n \in Nat
<1>5. m - 1 \in S
  BY <1>2, <1>4
<1> QED
  BY <1>3, <1>4, <1>5
-----------------------------------------------------------------------------
(* Powers of two *)

Pow == [k \in 0 .. WordBits |-> 2 ^ k]

LEMMA WordBitsNat == WordBits \in Nat
  BY OctetAssumption DEF WordBits

LEMMA PowFacts ==
  /\ \A k \in 0 .. WordBits : Pow[k] = 2 ^ k
  /\ Pow[0] = 1
  /\ \A k \in 0 .. WordBits - 1 : Pow[k + 1] = 2 * Pow[k]
<1>1. WordBits \in Nat
  BY WordBitsNat
<1>2. \A k \in 0 .. WordBits - 1 : k \in 0 .. WordBits /\ k + 1 \in 0 .. WordBits
  BY ONLY <1>1
<1>3. \A k \in 0 .. WordBits : Pow[k] = 2 ^ k
  BY ONLY TRUE DEF Pow
<1>4. 0 \in 0 .. WordBits
  BY ONLY <1>1
<1>5. Pow[0] = 1
  BY ONLY <1>3, <1>4, PowerAssumption
<1>6. ASSUME NEW k \in 0 .. WordBits - 1 PROVE Pow[k + 1] = 2 * Pow[k]
  <2>1. 2 ^ (k + 1) = 2 * 2 ^ k
    BY PowerAssumption
  <2>2. Pow[k] = 2 ^ k /\ Pow[k + 1] = 2 ^ (k + 1)
    BY ONLY <1>2, <1>3, k \in 0 .. WordBits - 1
  <2> QED
    BY ONLY <2>1, <2>2
<1> QED
  BY ONLY <1>3, <1>5, <1>6

LEMMA PowNat == \A k \in 0 .. WordBits : Pow[k] \in Nat /\ Pow[k] > 0
<1> DEFINE S == {k \in 0 .. WordBits : Pow[k] \in Nat /\ Pow[k] > 0}
<1>1. WordBits \in Nat
  BY WordBitsNat
<1>2. 0 \in S
  BY <1>1, PowFacts
<1>3. ASSUME NEW k \in 0 .. WordBits - 1, k \in S PROVE k + 1 \in S
  <2>1. Pow[k + 1] = 2 * Pow[k] /\ Pow[k] \in Nat /\ Pow[k] > 0
    BY <1>3, PowFacts
  <2>2. Pow[k + 1] \in Nat /\ Pow[k + 1] > 0
    BY ONLY <2>1
  <2>3. k + 1 \in 0 .. WordBits
    BY ONLY <1>1, k \in 0 .. WordBits - 1
  <2> QED
    BY <2>2, <2>3
<1>4. \A k \in 0 .. WordBits : k \in S
  <2> HIDE DEF S
  <2> QED
    BY ONLY <1>1, <1>2, <1>3, SetInduction
<1> QED
  BY <1>4

\* The law of exponents.
LEMMA PowSum ==
  ASSUME NEW a \in Nat, NEW b \in Nat, a + b <= WordBits
  PROVE  Pow[a + b] = Pow[a] * Pow[b]
<1> DEFINE S == {k \in Nat : a + k <= WordBits => Pow[a + k] = Pow[a] * Pow[k]}
<1>1. WordBits \in Nat
  BY WordBitsNat
<1>2. a \in 0 .. WordBits /\ b \in 0 .. WordBits
  BY ONLY <1>1, a \in Nat, b \in Nat, a + b <= WordBits
<1>3. 0 \in S
  <2>1. a + 0 = a /\ 0 \in Nat
    OBVIOUS
  <2>2. Pow[a] * 1 = Pow[a]
    BY ONLY <1>2, PowNat
  <2>3. Pow[a + 0] = Pow[a] * Pow[0]
    BY ONLY <2>1, <2>2, PowFacts
  <2> QED
    BY ONLY <2>1, <2>3
<1>4. ASSUME NEW k \in 0 .. b - 1, k \in S PROVE k + 1 \in S
  <2>1. k \in Nat /\ k + 1 \in Nat
    BY ONLY b \in Nat, k \in 0 .. b - 1
  <2>2. a + (k + 1) <= WordBits
    BY ONLY <1>1, <2>1, k \in 0 .. b - 1, a \in Nat, b \in Nat, a + b <= WordBits
  <2>3. /\ a + k <= WordBits /\ a + k \in 0 .. WordBits - 1 /\ k \in 0 .. WordBits - 1
        /\ a + (k + 1) = (a + k) + 1 /\ k \in 0 .. WordBits
    BY ONLY <1>1, <2>1, <2>2, a \in Nat
  <2>4. Pow[a + k] = Pow[a] * Pow[k]
    BY <1>4, <2>3
  <2>5. Pow[(a + k) + 1] = 2 * Pow[a + k] /\ Pow[k + 1] = 2 * Pow[k]
    BY ONLY <2>3, PowFacts
  <2>6. Pow[a] \in Nat /\ Pow[k] \in Nat
    BY ONLY <1>2, <2>3, PowNat
  <2>7. \A x, y \in Nat : 2 * (x * y) = x * (2 * y)
    OBVIOUS
  <2>8. Pow[a + (k + 1)] = Pow[a] * Pow[k + 1]
    BY ONLY <2>3, <2>4, <2>5, <2>6, <2>7
  <2> QED
    BY ONLY <2>1, <2>8
<1>5. \A k \in 0 .. b : k \in S
  <2> HIDE DEF S
  <2>1. b \in Nat
    OBVIOUS
  <2> QED
    BY ONLY <1>3, <1>4, <2>1, SetInduction
<1>6. b \in S
  BY <1>5
<1> QED
  BY <1>6


\* A quotient and a rest are the only ones.
LEMMA DivUnique ==
  ASSUME NEW d \in Nat, d > 0, NEW q \in Int, NEW r \in Nat, r < d, NEW x, x = q * d + r
  PROVE  x \in Int /\ x \div d = q /\ x % d = r
<1>1. x \in Int
  OBVIOUS
<1>2. PICK p : p \in Int /\ p = x \div d
  BY <1>1
<1>3. PICK s : s \in Nat /\ s = x % d /\ s < d
  BY <1>1
<1>4. x = p * d + s
  BY <1>1, <1>2, <1>3
<1>5. p * d + s = q * d + r
  BY ONLY <1>4, x = q * d + r
<1>6. ~(p < q)
  <2> SUFFICES ASSUME p < q PROVE FALSE
    OBVIOUS
  <2>1. p + 1 <= q
    BY ONLY <1>2, p < q, q \in Int
  <2>2. (p + 1) * d <= q * d
    BY ONLY <1>2, <2>1, q \in Int, d \in Nat
  <2>3. (p + 1) * d = p * d + d
    BY ONLY <1>2, d \in Nat
  <2>4. p * d \in Int /\ q * d \in Int
    BY ONLY <1>2, d \in Nat, q \in Int
  <2> QED
    BY ONLY <1>3, <1>5, <2>2, <2>3, <2>4, d \in Nat, r \in Nat
<1>7. ~(q < p)
  <2> SUFFICES ASSUME q < p PROVE FALSE
    OBVIOUS
  <2>1. q + 1 <= p
    BY ONLY <1>2, q < p, q \in Int
  <2>2. (q + 1) * d <= p * d
    BY ONLY <1>2, <2>1, q \in Int, d \in Nat
  <2>3. (q + 1) * d = q * d + d
    BY ONLY q \in Int, d \in Nat
  <2>4. p * d \in Int /\ q * d \in Int
    BY ONLY <1>2, d \in Nat, q \in Int
  <2> QED
    BY ONLY <1>3, <1>5, <2>2, <2>3, <2>4, d \in Nat, r \in Nat, r < d
<1>8. p = q
  BY ONLY <1>2, <1>6, <1>7, q \in Int
<1>9. s = r
  <2>1. PICK y : y \in Int /\ y = q * d
    BY ONLY d \in Nat, q \in Int
  <2>2. y + s = y + r
    BY ONLY <1>5, <1>8, <2>1
  <2>3. s \in Nat
    BY ONLY <1>3
  <2>4. y \in Int
    BY ONLY <2>1
  <2> QED
    BY ONLY <2>2, <2>3, <2>4, r \in Nat
<1> QED
  BY <1>1, <1>2, <1>3, <1>8, <1>9

\* A word and its half, in blocks.
LEMMA Sizes ==
  /\ OctetSize \in Nat /\ OctetSize > 0
  /\ WordSize \in Nat /\ WordSize > 0
  /\ WordSize = 2 * (WordSize \div 2) /\ WordSize \div 2 \in Nat /\ WordSize \div 2 > 0
  /\ \A one \in 0 .. WordBits :
       /\ Pow[WordBits - one] = 2 ^ (WordBits - one)
       /\ Pow[WordBits - one] \in Nat /\ Pow[WordBits - one] > 0
       /\ one = 0 => Pow[WordBits - one] = WordSize
       /\ one # 0 => \E q \in Nat : WordSize \div 2 = q * Pow[WordBits - one]
<1>1. PICK o : o \in Nat /\ o = OctetBits /\ o > 0
  BY OctetAssumption
<1>2. WordBits = 4 * o
  BY <1>1 DEF WordBits
<1>3. PICK O : O \in Nat /\ O = OctetSize /\ O > 0
  BY OctetAssumption
<1>4. O = Pow[o]
  <2>1. o \in 0 .. WordBits
    BY ONLY <1>1, <1>2
  <2> QED
    BY <1>1, <1>3, <2>1, PowFacts, OctetAssumption
<1>5. WordSize = Pow[WordBits]
  <2>1. o + o <= WordBits /\ (o + o) + (o + o) <= WordBits /\ (o + o) + (o + o) = WordBits /\ o + o \in Nat
    BY ONLY <1>1, <1>2
  <2>2. Pow[o + o] = Pow[o] * Pow[o]
    BY ONLY <1>1, <2>1, PowSum
  <2>3. Pow[(o + o) + (o + o)] = Pow[o + o] * Pow[o + o]
    BY ONLY <2>1, PowSum
  <2>4. (O * O) * (O * O) = O * O * O * O
    BY ONLY <1>3
  <2> QED
    BY ONLY <1>3, <1>4, <2>1, <2>2, <2>3, <2>4 DEF WordSize
<1>6. PICK n : n \in Nat /\ n = WordBits - 1 /\ n + 1 = WordBits
  <2>1. WordBits - 1 \in Nat /\ (WordBits - 1) + 1 = WordBits
    BY ONLY <1>1, <1>2
  <2> QED
    BY ONLY <2>1
<1>7. Pow[WordBits] = 2 * Pow[n] /\ Pow[n] \in Nat /\ Pow[n] > 0
  <2>1. n \in 0 .. WordBits - 1 /\ n \in 0 .. WordBits
    BY ONLY <1>6
  <2> QED
    BY ONLY <1>6, <2>1, PowFacts, PowNat
<1>8. WordSize \div 2 = Pow[n]
  <2>1. WordSize = Pow[n] * 2 + 0 /\ Pow[n] \in Int
    BY ONLY <1>5, <1>7
  <2> QED
    BY ONLY <2>1, DivUnique
<1>9. WordSize \in Nat /\ WordSize > 0 /\ WordSize = 2 * (WordSize \div 2) /\ WordSize \div 2 \in Nat
      /\ WordSize \div 2 > 0
  BY ONLY <1>5, <1>7, <1>8
<1>10. ASSUME NEW one \in 0 .. WordBits
       PROVE  /\ Pow[WordBits - one] = 2 ^ (WordBits - one)
              /\ Pow[WordBits - one] \in Nat /\ Pow[WordBits - one] > 0
              /\ one = 0 => Pow[WordBits - one] = WordSize
              /\ one # 0 => \E q \in Nat : WordSize \div 2 = q * Pow[WordBits - one]
  <2>1. PICK k : k \in 0 .. WordBits /\ k = WordBits - one /\ k \in Nat
    <3>1. WordBits - one \in 0 .. WordBits
      BY ONLY <1>1, <1>2, one \in 0 .. WordBits
    <3>2. WordBits - one \in Nat
      BY ONLY <3>1
    <3> QED
      BY ONLY <3>1, <3>2
  <2>2. Pow[k] = 2 ^ k /\ Pow[k] \in Nat /\ Pow[k] > 0
    BY ONLY <2>1, PowFacts, PowNat
  <2>3. one = 0 => k = WordBits
    BY ONLY <1>1, <1>2, <2>1
  <2>4. ASSUME one # 0 PROVE \E q \in Nat : WordSize \div 2 = q * Pow[k]
    <3>1. one - 1 \in Nat /\ (one - 1) + k = n /\ n <= WordBits /\ one - 1 \in 0 .. WordBits
      BY ONLY <1>1, <1>2, <1>6, <2>1, <2>4, one \in 0 .. WordBits
    <3>2. Pow[(one - 1) + k] = Pow[one - 1] * Pow[k] /\ Pow[one - 1] \in Nat
      BY ONLY <2>1, <3>1, PowSum, PowNat
    <3> QED
      BY ONLY <1>8, <3>1, <3>2
  <2> QED
    BY ONLY <1>5, <2>1, <2>2, <2>3, <2>4
<1> QED
  BY ONLY <1>3, <1>9, <1>10
-----------------------------------------------------------------------------
(* Addresses as numbers *)

\* A signed integer of a word.
LEMMA SignedValue ==
  ASSUME NEW x \in Int
  PROVE  /\ -(WordSize \div 2) <= x /\ x < WordSize \div 2 => Int32(x) = x
         /\ WordSize \div 2 <= x /\ x < WordSize => Int32(x) = x - WordSize
<1>1. PICK W, h : W \in Nat /\ h \in Nat /\ h > 0 /\ W = 2 * h /\ W = WordSize /\ h = WordSize \div 2
  BY Sizes
<1>2. Int32(x) = ((x + h) % W) - h
  BY ONLY <1>1 DEF Int32
<1>3. ASSUME -h <= x, x < h PROVE Int32(x) = x
  <2>1. PICK y : y \in Nat /\ y = x + h /\ y < W /\ y = 0 * W + y
    <3>1. x + h \in Nat /\ x + h < W /\ x + h = 0 * W + (x + h)
      BY ONLY <1>1, <1>3, x \in Int
    <3> QED
      BY ONLY <3>1
  <2>2. y % W = y
    <3>1. 0 \in Int /\ W \in Nat /\ W > 0
      BY ONLY <1>1
    <3> QED
      BY ONLY <2>1, <3>1, DivUnique
  <2> QED
    BY ONLY <1>1, <1>2, <2>1, <2>2, x \in Int
<1>4. ASSUME h <= x, x < W PROVE Int32(x) = x - W
  <2>1. PICK y : y \in Nat /\ y = x - h /\ y < W /\ x + h = 1 * W + y
    <3>1. x - h \in Nat /\ x - h < W /\ x + h = 1 * W + (x - h)
      BY ONLY <1>1, <1>4, x \in Int
    <3> QED
      BY ONLY <3>1
  <2>2. (x + h) % W = y
    <3>1. 1 \in Int /\ W \in Nat /\ W > 0
      BY ONLY <1>1
    <3>2. PICK v : v = x + h
      OBVIOUS
    <3>3. y \in Nat /\ y < W /\ v = 1 * W + y
      BY ONLY <2>1, <3>2
    <3>4. v % W = y
      BY ONLY <3>1, <3>3, DivUnique
    <3> QED
      BY ONLY <3>2, <3>4
  <2> QED
    BY ONLY <1>1, <1>2, <2>1, <2>2, x \in Int
<1> QED
  BY ONLY <1>1, <1>3, <1>4

\* The number that four octets are; the first may be a signed one.
Number(a, b, c, d) == ((a * OctetSize + b) * OctetSize + c) * OctetSize + d

LEMMA Bytes ==
  ASSUME NEW a \in Int, NEW b \in Octet, NEW c \in Octet, NEW d \in Octet
  PROVE  toIP(Number(a, b, c, d)) = <<a % OctetSize, b, c, d>>
<1>1. PICK O : O \in Nat /\ O > 0 /\ O = OctetSize
  BY Sizes
<1>2. b \in Nat /\ b < O /\ c \in Nat /\ c < O /\ d \in Nat /\ d < O
  BY ONLY <1>1, b \in Octet, c \in Octet, d \in Octet DEF Octet
<1>3. PICK x2 : x2 \in Int /\ x2 = a * O + b
  BY ONLY <1>1, <1>2, a \in Int
<1>4. PICK x3 : x3 \in Int /\ x3 = x2 * O + c
  BY ONLY <1>1, <1>2, <1>3
<1>5. PICK x4 : x4 \in Int /\ x4 = x3 * O + d
  BY ONLY <1>1, <1>2, <1>4
<1>6. Number(a, b, c, d) = x4
  BY ONLY <1>1, <1>3, <1>4, <1>5 DEF Number
<1>7. x2 % O = b /\ x3 % O = c /\ x4 % O = d
  <2>1. x2 % O = b
    <3>1. O \in Nat /\ O > 0 /\ a \in Int /\ b \in Nat /\ b < O /\ x2 = a * O + b
      BY ONLY <1>1, <1>2, <1>3, a \in Int
    <3> QED
      BY ONLY <3>1, DivUnique
  <2>2. x3 % O = c
    <3>1. O \in Nat /\ O > 0 /\ x2 \in Int /\ c \in Nat /\ c < O /\ x3 = x2 * O + c
      BY ONLY <1>1, <1>2, <1>3, <1>4
    <3> QED
      BY ONLY <3>1, DivUnique
  <2>3. x4 % O = d
    BY ONLY <1>1, <1>2, <1>4, <1>5, DivUnique
  <2> QED
    BY ONLY <2>1, <2>2, <2>3
<1>8. x4 \div 1 = x4
  <2>1. x4 = x4 * 1 + 0
    BY ONLY <1>5
  <2> QED
    BY ONLY <1>5, <2>1, DivUnique
<1>9. x4 \div O = x3
  BY ONLY <1>1, <1>2, <1>4, <1>5, DivUnique
<1>10. PICK P : P \in Nat /\ P > 0 /\ P = O * O
  BY ONLY <1>1
<1>11. c * O + d \in Nat /\ c * O + d < P
  <2>1. c + 1 <= O
    BY ONLY <1>1, <1>2
  <2>2. (c + 1) * O <= O * O /\ (c + 1) * O = c * O + O
    BY ONLY <1>1, <1>2, <2>1
  <2>3. c * O \in Nat
    BY ONLY <1>1, <1>2
  <2> QED
    BY ONLY <1>1, <1>2, <1>10, <2>2, <2>3
<1>12. x4 \div P = x2
  <2>1. x4 = x2 * P + (c * O + d)
    <3>1. x4 = (x2 * O + c) * O + d
      BY ONLY <1>4, <1>5
    <3>2. (x2 * O + c) * O = x2 * (O * O) + c * O
      BY ONLY <1>1, <1>2, <1>3
    <3>3. x2 * (O * O) \in Int /\ c * O \in Int
      BY ONLY <1>1, <1>2, <1>3
    <3> QED
      BY ONLY <1>2, <1>10, <3>1, <3>2, <3>3
  <2> QED
    BY ONLY <1>3, <1>10, <1>11, <2>1, DivUnique
<1>13. PICK Q : Q \in Nat /\ Q > 0 /\ Q = O * O * O
  <2>1. O * O * O = O * P /\ O * P \in Nat /\ O * P > 0
    BY ONLY <1>1, <1>10
  <2> QED
    BY ONLY <2>1
<1>14. PICK e : e \in Nat /\ e = c * O + d /\ e < P
  BY ONLY <1>11
<1>15. b * P + e \in Nat /\ b * P + e < Q
  <2>1. b + 1 <= O
    BY ONLY <1>1, <1>2
  <2>2. (b + 1) * P <= O * P /\ (b + 1) * P = b * P + P /\ O * P = Q
    BY ONLY <1>1, <1>2, <1>10, <1>13, <2>1
  <2>3. b * P \in Nat
    BY ONLY <1>2, <1>10
  <2> QED
    BY ONLY <1>10, <1>13, <1>14, <2>2, <2>3
<1>16. x4 \div Q = a
  <2>1. x4 = x2 * P + e
    <3>1. x4 = (x2 * O + c) * O + d
      BY ONLY <1>4, <1>5
    <3>2. (x2 * O + c) * O = x2 * (O * O) + c * O
      BY ONLY <1>1, <1>2, <1>3
    <3>3. x2 * (O * O) \in Int /\ c * O \in Int
      BY ONLY <1>1, <1>2, <1>3
    <3> QED
      BY ONLY <1>2, <1>10, <1>14, <3>1, <3>2, <3>3
  <2>2. x2 * P = a * Q + b * P
    <3>1. (a * O + b) * P = a * (O * P) + b * P
      BY ONLY <1>1, <1>2, <1>10, a \in Int
    <3>2. O * P = Q
      BY ONLY <1>1, <1>10, <1>13
    <3> QED
      BY ONLY <1>3, <3>1, <3>2
  <2>3. x4 = a * Q + (b * P + e)
    <3>1. a * Q \in Int /\ b * P \in Int
      BY ONLY <1>2, <1>10, <1>13, a \in Int
    <3> QED
      BY ONLY <1>14, <2>1, <2>2, <3>1
  <2> QED
    BY ONLY <1>13, <1>15, <2>3, a \in Int, DivUnique
<1> QED
  BY ONLY <1>1, <1>6, <1>7, <1>8, <1>9, <1>10, <1>12, <1>13, <1>16 DEF toIP, Byte

\* One more octet.
LEMMA OneMore ==
  ASSUME NEW O \in Nat, NEW n \in Nat, NEW q \in Nat, q < n, NEW r \in Nat, r < O
  PROVE  q * O + r \in Nat /\ q * O + r < n * O
<1>1. q + 1 <= n
  OBVIOUS
<1>2. (q + 1) * O <= n * O /\ (q + 1) * O = q * O + O
  BY <1>1
<1>3. q * O \in Nat /\ n * O \in Nat
  OBVIOUS
<1> QED
  BY ONLY <1>2, <1>3, r \in Nat, O \in Nat, r < O

\* toIP undoes the signed and the unsigned reading of an address.
LEMMA AddressRead ==
  ASSUME NEW ip \in Address
  PROVE  /\ Unsigned(ip) \in Nat /\ Unsigned(ip) < WordSize
         /\ toIP(Unsigned(ip)) = ip /\ toIP(Unsigned(ip) - WordSize) = ip
<1>1. PICK O : O \in Nat /\ O > 0 /\ O = OctetSize
  BY Sizes
<1>2. PICK a \in Octet, b \in Octet, c \in Octet, d \in Octet : ip = <<a, b, c, d>>
  BY DEF Address
<1>3. a \in Nat /\ a < O /\ b \in Nat /\ b < O /\ c \in Nat /\ c < O /\ d \in Nat /\ d < O
  BY ONLY <1>1, a \in Octet, b \in Octet, c \in Octet, d \in Octet DEF Octet
<1>4. Unsigned(ip) = Number(a, b, c, d)
  BY ONLY <1>2 DEF Unsigned, Number
<1>5. PICK x2 : x2 \in Nat /\ x2 = a * O + b /\ x2 < O * O
  BY ONLY <1>1, <1>3, OneMore
<1>6. PICK P : P \in Nat /\ P = O * O
  BY ONLY <1>1
<1>7. PICK x3 : x3 \in Nat /\ x3 = x2 * O + c /\ x3 < P * O
  <2>1. x2 < P
    BY ONLY <1>5, <1>6
  <2> QED
    BY ONLY <1>1, <1>3, <1>5, <1>6, <2>1, OneMore
<1>8. PICK Q : Q \in Nat /\ Q = P * O
  BY ONLY <1>1, <1>6
<1>9. PICK x4 : x4 \in Nat /\ x4 = x3 * O + d /\ x4 < Q * O
  <2>1. x3 < Q
    BY ONLY <1>7, <1>8
  <2> QED
    BY ONLY <1>1, <1>3, <1>7, <1>8, <2>1, OneMore
<1>10. WordSize = Q * O
  BY ONLY <1>1, <1>6, <1>8 DEF WordSize
<1>11. Unsigned(ip) = x4
  BY ONLY <1>1, <1>4, <1>5, <1>7, <1>9 DEF Number
<1>12. toIP(x4) = ip
  <2>1. toIP(Number(a, b, c, d)) = <<a % OctetSize, b, c, d>>
    <3>1. a \in Int
      BY ONLY <1>3
    <3> QED
      BY ONLY <3>1, b \in Octet, c \in Octet, d \in Octet, Bytes
  <2>2. a % O = a
    BY ONLY <1>1, <1>3
  <2> QED
    BY ONLY <1>1, <1>2, <1>4, <1>11, <2>1, <2>2
<1>13. toIP(x4 - WordSize) = ip
  <2>1. PICK e : e \in Int /\ e = a - O
    BY ONLY <1>1, <1>3
  <2>2. toIP(Number(e, b, c, d)) = <<e % OctetSize, b, c, d>>
    BY ONLY <2>1, b \in Octet, c \in Octet, d \in Octet, Bytes
  <2>3. e % O = a
    <3>1. PICK m : m \in Int /\ m = 0 - 1
      OBVIOUS
    <3>2. m * O = 0 - O
      BY ONLY <1>1, <3>1
    <3>3. e = (0 - O) + a
      BY ONLY <1>1, <1>3, <2>1
    <3>4. O \in Nat /\ O > 0 /\ m \in Int /\ a \in Nat /\ a < O /\ e = m * O + a
      BY ONLY <1>1, <1>3, <3>1, <3>2, <3>3
    <3> QED
      BY ONLY <3>4, DivUnique
  <2>4. Number(e, b, c, d) = x4 - WordSize
    <3>1. PICK y2 : y2 \in Int /\ y2 = e * O + b
      BY ONLY <1>1, <1>3, <2>1
    <3>2. y2 = x2 - P
      <4>1. (a - O) * O = a * O - O * O
        BY ONLY <1>1, <1>3
      <4>2. a * O \in Nat /\ O * O \in Nat
        BY ONLY <1>1, <1>3
      <4>3. PICK f : f \in Nat /\ f = a * O
        BY ONLY <4>2
      <4>4. y2 = (f - P) + b /\ x2 = f + b
        BY ONLY <1>5, <1>6, <2>1, <3>1, <4>1, <4>3
      <4>5. P \in Nat /\ f \in Nat /\ b \in Nat
        BY ONLY <1>3, <1>6, <4>3
      <4> QED
        BY ONLY <4>4, <4>5
    <3>3. PICK y3 : y3 \in Int /\ y3 = y2 * O + c
      BY ONLY <1>1, <1>3, <3>1
    <3>4. y3 = x3 - Q
      <4>1. (x2 - P) * O = x2 * O - P * O
        BY ONLY <1>1, <1>5, <1>6
      <4>2. PICK f : f \in Nat /\ f = x2 * O
        BY ONLY <1>1, <1>5
      <4>3. y3 = (f - Q) + c /\ x3 = f + c
        BY ONLY <1>7, <1>8, <3>2, <3>3, <4>1, <4>2
      <4>4. Q \in Nat /\ f \in Nat /\ c \in Nat
        BY ONLY <1>3, <1>8, <4>2
      <4> QED
        BY ONLY <4>3, <4>4
    <3>5. y3 * O + d = x4 - Q * O
      <4>1. (x3 - Q) * O = x3 * O - Q * O
        BY ONLY <1>1, <1>7, <1>8
      <4>2. PICK f : f \in Nat /\ f = x3 * O
        BY ONLY <1>1, <1>7
      <4>3. PICK g : g \in Nat /\ g = Q * O
        BY ONLY <1>1, <1>8
      <4>4. y3 * O + d = (f - g) + d /\ x4 = f + d
        BY ONLY <1>9, <3>4, <4>1, <4>2, <4>3
      <4>5. d \in Nat /\ f \in Nat /\ g \in Nat
        BY ONLY <1>3, <4>2, <4>3
      <4>6. (f - g) + d = (f + d) - g
        BY ONLY <4>5
      <4> QED
        BY ONLY <4>3, <4>4, <4>6
    <3> QED
      BY ONLY <1>1, <1>10, <3>1, <3>3, <3>5 DEF Number
  <2> QED
    BY ONLY <1>1, <1>2, <2>2, <2>3, <2>4
<1> QED
  BY ONLY <1>9, <1>10, <1>11, <1>12, <1>13

\* A number and its last octet.
LEMMA LastOctet ==
  ASSUME NEW O \in Nat, O > 0, NEW n \in Nat, NEW v \in Nat, v < n * O
  PROVE  \E q \in Nat, r \in 0 .. O - 1 : v = q * O + r /\ q < n
<1>1. v = (v \div O) * O + (v % O) /\ v % O \in 0 .. O - 1 /\ v \div O \in Int
  OBVIOUS
<1>2. PICK q : q \in Int /\ q = v \div O
  BY ONLY <1>1
<1>3. PICK r : r \in Nat /\ r = v % O /\ r < O
  BY ONLY <1>1, O \in Nat
<1>4. v = q * O + r
  BY ONLY <1>1, <1>2, <1>3
<1>5. q >= 0
  <2> SUFFICES ASSUME q + 1 <= 0 PROVE FALSE
    BY <1>2
  <2>1. (q + 1) * O <= 0 * O /\ (q + 1) * O = q * O + O
    BY ONLY <1>2, q + 1 <= 0, O \in Nat
  <2>2. q * O \in Int /\ 0 * O = 0
    BY ONLY <1>2, O \in Nat
  <2> QED
    BY ONLY <1>3, <1>4, <2>1, <2>2, v \in Nat, O \in Nat
<1>6. q < n
  <2> SUFFICES ASSUME n <= q PROVE FALSE
    BY <1>2
  <2>1. n * O <= q * O /\ q * O \in Int /\ n * O \in Nat
    BY ONLY <1>2, n <= q, n \in Nat, O \in Nat
  <2> QED
    BY ONLY <1>3, <1>4, <2>1, v \in Nat, v < n * O
<1>7. q \in Nat /\ r \in 0 .. O - 1
  BY ONLY <1>2, <1>3, <1>5, O \in Nat
<1> QED
  BY ONLY <1>4, <1>6, <1>7

\* Every number of a word is an address.
LEMMA AddressOf ==
  ASSUME NEW v \in Nat, v < WordSize
  PROVE  \E ip \in Address : Unsigned(ip) = v
<1>1. PICK O : O \in Nat /\ O > 0 /\ O = OctetSize
  BY Sizes
<1>2. PICK P : P \in Nat /\ P = O * O
  BY ONLY <1>1
<1>3. PICK Q : Q \in Nat /\ Q = P * O
  BY ONLY <1>1, <1>2
<1>4. WordSize = Q * O
  BY ONLY <1>1, <1>2, <1>3 DEF WordSize
<1>5. PICK x3 \in Nat, d \in 0 .. O - 1 : v = x3 * O + d /\ x3 < Q
  <2>1. v < Q * O
    BY ONLY <1>4, v < WordSize
  <2> QED
    <3>1. O \in Nat /\ O > 0 /\ Q \in Nat /\ v \in Nat /\ v < Q * O
      BY ONLY <1>1, <1>3, <2>1, v \in Nat
    <3> QED
      BY ONLY <3>1, LastOctet
<1>6. PICK x2 \in Nat, c \in 0 .. O - 1 : x3 = x2 * O + c /\ x2 < P
  <2>1. x3 < P * O
    BY ONLY <1>3, <1>5
  <2> QED
    <3>1. O \in Nat /\ O > 0 /\ P \in Nat /\ x3 \in Nat /\ x3 < P * O
      BY ONLY <1>1, <1>2, <2>1, x3 \in Nat
    <3> QED
      BY ONLY <3>1, LastOctet
<1>7. PICK a \in Nat, b \in 0 .. O - 1 : x2 = a * O + b /\ a < O
  <2>1. x2 < O * O
    BY ONLY <1>2, <1>6
  <2> QED
    <3>1. O \in Nat /\ O > 0 /\ O \in Nat /\ x2 \in Nat /\ x2 < O * O
      BY ONLY <1>1, <2>1, x2 \in Nat
    <3> QED
      BY ONLY <3>1, LastOctet
<1>8. a \in 0 .. O - 1
  BY ONLY <1>1, <1>7, a \in Nat
<1>9. <<a, b, c, d>> \in Address
  BY ONLY <1>1, <1>8, b \in 0 .. O - 1, c \in 0 .. O - 1, d \in 0 .. O - 1 DEF Address, Octet
<1>10. Unsigned(<<a, b, c, d>>) = v
  BY ONLY <1>1, <1>5, <1>6, <1>7 DEF Unsigned
<1> QED
  BY ONLY <1>9, <1>10
-----------------------------------------------------------------------------
(* The pool *)

\* A block: h is the half of a word, H the addresses of the block, u its own, a
\* the block's number and r the place in it; x is u as a signed number.
Place(block, h, H, u, a, r, x) ==
  /\ h = WordSize \div 2 /\ H = 2 ^ (WordBits - block.one)
  /\ u = Unsigned(block.ip) /\ u = a * H + r /\ x = ToInt(block.ip)
  /\ h > 0 /\ WordSize = 2 * h /\ H > 0 /\ r < H /\ u < 2 * h
  /\ x = u \/ x = u - 2 * h
  /\ -h <= x /\ x + 1 < h /\ x - r + H - 1 < h
  /\ x < 0 => x - r + H - 1 < 0
  /\ Int32(getIPRange(block).begin + 1) = x + 1
  /\ getIPRange(block).end = x - r + H - 1

\* Without a wrap the block ends behind its beginning, on the same side of 0.
LEMMA BlockEnds ==
  ASSUME NEW h \in Nat, NEW H \in Nat, H > 0, NEW c \in Int, NEW r \in Nat, r < H,
         NEW x \in Int, x = c * H + r, x < h, NEW q \in Nat, h = q * H
  PROVE  x - r + H - 1 < h /\ (x < 0 => x - r + H - 1 < 0)
<1>1. PICK y : y \in Int /\ y = c * H
  OBVIOUS
<1>2. x = y + r /\ x - r + H - 1 = y + H - 1
  BY ONLY <1>1, x = c * H + r, r \in Nat, H \in Nat
<1>3. (c + 1) * H = y + H
  BY ONLY <1>1, c \in Int, H \in Nat
<1>4. c + 1 <= q
  <2> SUFFICES ASSUME q <= c PROVE FALSE
    BY c \in Int, q \in Nat
  <2>1. q * H <= c * H
    BY ONLY q <= c, c \in Int, q \in Nat, H \in Nat
  <2>2. h <= y
    BY ONLY <1>1, <2>1, h = q * H
  <2> QED
    BY ONLY <1>1, <1>2, <2>2, x < h, r \in Nat, h \in Nat
<1>5. y + H <= h
  <2>1. (c + 1) * H <= q * H
    BY ONLY <1>4, c \in Int, q \in Nat, H \in Nat
  <2> QED
    BY ONLY <1>3, <2>1, h = q * H
<1>6. ASSUME x < 0 PROVE y + H <= 0
  <2>1. c + 1 <= 0
    <3> SUFFICES ASSUME 0 <= c PROVE FALSE
      BY c \in Int
    <3>1. 0 <= c * H
      BY ONLY 0 <= c, c \in Int, H \in Nat
    <3> QED
      BY ONLY <1>1, <1>2, <1>6, <3>1, r \in Nat
  <2>2. (c + 1) * H <= 0
    BY ONLY <2>1, c \in Int, H \in Nat
  <2> QED
    BY ONLY <1>3, <2>2
<1> QED
  BY ONLY <1>1, <1>2, <1>5, <1>6, h \in Nat, H \in Nat

\* The place of a block, and what getIPRange makes of it.
LEMMA RangeOf ==
  ASSUME NEW block \in Block, ~Wraps(block)
  PROVE  \E h \in Nat, H \in Nat, u \in Nat, a \in Int, r \in Nat, x \in Int :
           Place(block, h, H, u, a, r, x)
<1>1. block.ip \in Address /\ block.one \in 0 .. WordBits
  BY DEF Block
<1>2. PICK h : h \in Nat /\ h > 0 /\ h = WordSize \div 2 /\ WordSize = 2 * h
  BY Sizes
<1>3. PICK one : one \in 0 .. WordBits /\ one = block.one
  BY ONLY <1>1
<1>4. PICK H : /\ H \in Nat /\ H > 0 /\ H = 2 ^ (WordBits - one)
               /\ one = 0 => H = WordSize
               /\ one # 0 => \E q \in Nat : h = q * H
  BY ONLY <1>2, <1>3, Sizes
<1>5. PICK u : u \in Nat /\ u = Unsigned(block.ip) /\ u < 2 * h
  BY ONLY <1>1, <1>2, AddressRead
<1>6. PICK a : a \in Int /\ a = u \div H
  BY ONLY <1>4, <1>5
<1>7. PICK r : r \in Nat /\ r = u % H /\ r < H
  BY ONLY <1>4, <1>5
<1>8. u = a * H + r
  <2>1. u \in Nat /\ H \in Nat /\ H > 0
    BY ONLY <1>4, <1>5
  <2>2. u = (u \div H) * H + (u % H)
    BY ONLY <2>1
  <2> QED
    BY ONLY <1>6, <1>7, <2>2
<1>9. PICK x : x \in Int /\ x = Int32(u) /\ (u < h => x = u) /\ (h <= u => x = u - 2 * h)
  <2>1. u \in Int /\ (u < h => -h <= u) /\ (h <= u => u < WordSize)
    BY ONLY <1>2, <1>5
  <2>2. (u < h => Int32(u) = u) /\ (h <= u => Int32(u) = u - WordSize)
    BY ONLY <1>2, <2>1, SignedValue
  <2>3. u < h \/ h <= u
    BY ONLY <1>2, <1>5
  <2>4. Int32(u) \in Int
    <3>1. u - WordSize \in Int
      BY ONLY <1>2, <1>5
    <3> QED
      BY ONLY <2>1, <2>2, <2>3, <3>1
  <2> QED
    BY ONLY <1>2, <2>2, <2>4
<1>10. ToInt(block.ip) = x
  BY ONLY <1>5, <1>9 DEF ToInt, Unsigned
<1>11. (x = u \/ x = u - 2 * h) /\ -h <= x /\ x < h /\ (x < 0 <=> h <= u)
  BY ONLY <1>2, <1>5, <1>9
<1>12. ~(one = 0 /\ x >= 0) /\ x # h - 1
  BY ONLY <1>2, <1>3, <1>10, ~Wraps(block) DEF Wraps, MaxInt
<1>13. x + 1 < h
  BY ONLY <1>2, <1>9, <1>11, <1>12
<1>14. PICK Q : Q \in Nat /\ 2 * h = Q * H
  <2>1. CASE one = 0
    <3>1. 2 * h = 1 * H
      BY ONLY <1>2, <1>4, <2>1
    <3> QED
      BY ONLY <3>1
  <2>2. CASE one # 0
    <3>1. PICK q \in Nat : h = q * H
      BY ONLY <1>4, <2>2
    <3>2. 2 * (q * H) = (2 * q) * H /\ 2 * q \in Nat
      BY ONLY <1>4, q \in Nat
    <3> QED
      BY ONLY <3>1, <3>2
  <2> QED
    BY ONLY <2>1, <2>2
<1>15. PICK c : c \in Int /\ x = c * H + r
  <2>1. CASE x = u
    BY ONLY <1>6, <1>8, <2>1
  <2>2. CASE x = u - 2 * h
    <3>1. (a - Q) * H = a * H - Q * H /\ a - Q \in Int
      BY ONLY <1>4, <1>6, <1>14
    <3>2. PICK f : f \in Int /\ f = a * H
      BY ONLY <1>4, <1>6
    <3>3. PICK g : g \in Int /\ g = Q * H
      BY ONLY <1>4, <1>14
    <3>4. u = f + r /\ 2 * h = g
      BY ONLY <1>8, <1>14, <3>2, <3>3
    <3>5. r \in Nat /\ f \in Int /\ g \in Int
      BY ONLY <1>7, <3>2, <3>3
    <3>6. x = (f + r) - g
      BY ONLY <2>2, <3>4
    <3>7. x = (f - g) + r
      BY ONLY <3>5, <3>6
    <3>8. x = (a - Q) * H + r
      BY ONLY <3>1, <3>2, <3>3, <3>7
    <3> QED
      BY ONLY <3>1, <3>8
  <2> QED
    BY ONLY <1>11, <2>1, <2>2
<1>16. x % H = r
  BY ONLY <1>4, <1>7, <1>9, <1>15, DivUnique
<1>17. PICK e : e \in Int /\ e = x - r + H - 1
  BY ONLY <1>4, <1>7, <1>9
<1>18. e < h /\ (x < 0 => e < 0)
  <2>1. CASE one = 0
    <3>1. H = 2 * h /\ x < 0 /\ x = u - 2 * h
      BY ONLY <1>2, <1>4, <1>9, <1>11, <1>12, <2>1
    <3>2. r = u
      <4>1. u \in Nat /\ u < H /\ H \in Nat
        BY ONLY <1>4, <1>5, <3>1
      <4>2. u % H = u
        BY ONLY <4>1
      <4> QED
        BY ONLY <1>7, <4>2
    <3>3. u \in Nat /\ h \in Nat /\ h > 0 /\ e = ((u - 2 * h) - u) + 2 * h - 1
      BY ONLY <1>2, <1>5, <1>17, <3>1, <3>2
    <3>4. e = -1 /\ -1 < h
      BY ONLY <3>3
    <3> QED
      BY ONLY <3>4
  <2>2. CASE one # 0
    <3>1. PICK q \in Nat : h = q * H
      BY ONLY <1>4, <2>2
    <3>2. /\ h \in Nat /\ H \in Nat /\ H > 0 /\ c \in Int /\ r \in Nat /\ r < H
          /\ x \in Int /\ x = c * H + r /\ x < h /\ q \in Nat
      BY ONLY <1>2, <1>4, <1>7, <1>9, <1>11, <1>15, q \in Nat
    <3> QED
      BY ONLY <1>17, <3>1, <3>2, BlockEnds
  <2> QED
    BY ONLY <2>1, <2>2
<1>19. e >= x /\ -h <= e
  <2>1. H - 1 - r >= 0
    BY ONLY <1>4, <1>7
  <2>2. x \in Int /\ h \in Nat /\ H \in Nat /\ r \in Nat /\ -h <= x
    BY ONLY <1>2, <1>4, <1>7, <1>9, <1>11
  <2> QED
    BY ONLY <1>17, <2>1, <2>2
<1>20. Int32(e) = e
  BY ONLY <1>2, <1>17, <1>18, <1>19, SignedValue
<1>21. getIPRange(block).begin = x /\ getIPRange(block).end = Int32(e)
  BY ONLY <1>3, <1>4, <1>10, <1>16, <1>17 DEF getIPRange
<1>22. Int32(x + 1) = x + 1
  <2>1. x + 1 \in Int /\ -h <= x + 1
    BY ONLY <1>2, <1>9, <1>11
  <2> QED
    BY ONLY <1>2, <1>13, <2>1, SignedValue
<1>23. Place(block, h, H, u, a, r, x)
  <2>1. /\ h = WordSize \div 2 /\ H = 2 ^ (WordBits - block.one)
        /\ u = Unsigned(block.ip) /\ u = a * H + r /\ x = ToInt(block.ip)
    BY ONLY <1>2, <1>3, <1>4, <1>5, <1>8, <1>10
  <2>2. h > 0 /\ WordSize = 2 * h /\ H > 0 /\ r < H /\ u < 2 * h
    BY ONLY <1>2, <1>4, <1>5, <1>7
  <2>3. (x = u \/ x = u - 2 * h) /\ -h <= x /\ x + 1 < h
    BY ONLY <1>11, <1>13
  <2>4. x - r + H - 1 < h /\ (x < 0 => x - r + H - 1 < 0)
    BY ONLY <1>17, <1>18
  <2>5. Int32(getIPRange(block).begin + 1) = x + 1 /\ getIPRange(block).end = x - r + H - 1
    BY ONLY <1>17, <1>20, <1>21, <1>22
  <2> QED
    BY ONLY <2>1, <2>2, <2>3, <2>4, <2>5 DEF Place
<1>24. h \in Nat /\ H \in Nat /\ u \in Nat /\ a \in Int /\ r \in Nat /\ x \in Int
  BY ONLY <1>2, <1>4, <1>5, <1>6, <1>7, <1>9
<1> QED
  BY ONLY <1>23, <1>24

\* The pool's loop, from the address behind the block's own to the last but one.
LEMMA PoolOf ==
  ASSUME NEW block \in Block, NEW h \in Nat, NEW H \in Nat, NEW u \in Nat, NEW a \in Int,
         NEW r \in Nat, NEW x \in Int, Place(block, h, H, u, a, r, x)
  PROVE  \A p : p \in Pool(block) <=> \E i \in (x + 1) .. (x - r + H - 2) : p = toIP(i)
<1>1. Pool(block) = {toIP(i) : i \in (x + 1) .. ((x - r + H - 1) - 1)}
  BY ONLY Place(block, h, H, u, a, r, x) DEF Place, Pool
<1>2. (x - r + H - 1) - 1 = x - r + H - 2
  BY ONLY x \in Int, r \in Nat, H \in Nat
<1> QED
  BY ONLY <1>1, <1>2

\* The host at place r + j of the block.
HostOf(block, n, i) ==
  n < WordSize /\ \A ip \in Address : Unsigned(ip) = n => ip \in Hosts(block) /\ ip = toIP(i)

LEMMA HostAt ==
  ASSUME NEW block \in Block, NEW h \in Nat, NEW H \in Nat, NEW u \in Nat, NEW a \in Int,
         NEW r \in Nat, NEW x \in Int, Place(block, h, H, u, a, r, x),
         NEW j \in Nat, j > 0, r + j + 1 < H
  PROVE  HostOf(block, u + j, x + j)
<1>1. h > 0 /\ WordSize = 2 * h /\ H > 0 /\ r < H /\ u < 2 * h /\ x + 1 < h
  BY ONLY Place(block, h, H, u, a, r, x) DEF Place
<1>2. (x = u \/ x = u - 2 * h) /\ x - r + H - 1 < h /\ (x < 0 => x - r + H - 1 < 0) /\ u = a * H + r
  BY ONLY Place(block, h, H, u, a, r, x) DEF Place
<1>3. x + j < h /\ (x < 0 => x + j < 0)
  BY ONLY <1>2, r \in Nat, j \in Nat, H \in Nat, h \in Nat, x \in Int, r + j + 1 < H
<1>4. u + j < WordSize
  BY ONLY <1>1, <1>2, <1>3, u \in Nat, x \in Int, j \in Nat, h \in Nat
<1>5. ASSUME NEW ip \in Address, Unsigned(ip) = u + j PROVE ip \in Hosts(block) /\ ip = toIP(x + j)
  <2>1. ip = toIP(u + j) /\ ip = toIP((u + j) - WordSize)
    BY <1>5, AddressRead
  <2>2. x + j = u + j \/ x + j = (u + j) - WordSize
    <3>1. CASE x = u
      BY <3>1
    <3>2. CASE x = u - 2 * h
      BY ONLY <1>1, <3>2, u \in Nat, j \in Nat, h \in Nat
    <3> QED
      BY ONLY <1>2, <3>1, <3>2
  <2>3. PICK y : y \in Int /\ y = a * H
    OBVIOUS
  <2>4. u + j = a * H + (r + j) /\ (u + j) + 1 = a * H + (r + j + 1) /\ u = a * H + r
    <3>1. u = y + r
      BY ONLY <1>2, <2>3
    <3>2. u + j = y + (r + j) /\ (u + j) + 1 = y + (r + j + 1)
      BY ONLY <2>3, <3>1, r \in Nat, j \in Nat
    <3> QED
      BY ONLY <1>2, <2>3, <3>2
  <2>5. PICK v : v \in Nat /\ v = u + j
    OBVIOUS
  <2>6. PICK s : s \in Nat /\ s = r + j /\ s < H /\ s + 1 < H /\ s + 1 > 0 /\ s + 1 \in Nat
    BY ONLY r \in Nat, j \in Nat, H \in Nat, r + j + 1 < H
  <2>7. v \div H = a /\ u \div H = a
    <3>1. v = a * H + s /\ s \in Nat /\ s < H /\ H > 0
      BY ONLY <1>1, <2>4, <2>5, <2>6
    <3>2. v \div H = a
      BY ONLY <3>1, a \in Int, H \in Nat, DivUnique
    <3>3. u = a * H + r /\ r < H /\ H > 0
      BY ONLY <1>1, <2>4
    <3>4. u \div H = a
      BY ONLY <3>3, r \in Nat, a \in Int, H \in Nat, DivUnique
    <3> QED
      BY ONLY <3>2, <3>4
  <2>8. (v + 1) % H # 0
    <3>1. PICK w : w = v + 1
      OBVIOUS
    <3>2. PICK z : z \in Nat /\ z = s + 1 /\ z < H /\ z > 0
      BY ONLY <2>6
    <3>3. w = a * H + z /\ z < H /\ H > 0
      <4>1. w = (u + j) + 1 /\ z = r + j + 1
        BY ONLY <2>5, <2>6, <3>1, <3>2
      <4>2. (u + j) + 1 = a * H + (r + j + 1)
        BY ONLY <2>4
      <4>3. w = a * H + z
        BY ONLY <4>1, <4>2
      <4>4. z < H /\ H > 0
        BY ONLY <1>1, <3>2
      <4> QED
        BY ONLY <4>3, <4>4
    <3>4. w % H = z
      <4>1. z \in Nat
        BY ONLY <3>2
      <4> QED
        BY ONLY <3>3, <4>1, a \in Int, H \in Nat, DivUnique
    <3> QED
      BY ONLY <3>1, <3>2, <3>4
  <2>9. H = 2 ^ (WordBits - block.one) /\ u = Unsigned(block.ip)
    BY ONLY Place(block, h, H, u, a, r, x) DEF Place
  <2>10. v > u
    BY ONLY <2>5, u \in Nat, j \in Nat, j > 0
  <2>11. Unsigned(ip) = v
    BY <1>5, <2>5
  <2>12. ip \in Hosts(block)
    BY ONLY <2>7, <2>8, <2>9, <2>10, <2>11, ip \in Address DEF Hosts
  <2> QED
    BY ONLY <2>1, <2>2, <2>12
<1> QED
  BY <1>4, <1>5 DEF HostOf

\* A host is behind the block's own address and before the last.
LEMMA HostBetween ==
  ASSUME NEW block \in Block, NEW h \in Nat, NEW H \in Nat, NEW u \in Nat, NEW a \in Int,
         NEW r \in Nat, NEW x \in Int, Place(block, h, H, u, a, r, x),
         NEW ip \in Hosts(block)
  PROVE  \E j \in Nat : j > 0 /\ r + j + 1 < H /\ Unsigned(ip) = u + j /\ ip \in Address
<1>1. H > 0 /\ r < H /\ u = a * H + r /\ H = 2 ^ (WordBits - block.one) /\ u = Unsigned(block.ip)
  BY ONLY Place(block, h, H, u, a, r, x) DEF Place
<1>2. PICK v : v = Unsigned(ip)
  OBVIOUS
<1>3. ip \in Address /\ v \div H = u \div H /\ v > u /\ (v + 1) % H # 0
  BY ONLY <1>1, <1>2, ip \in Hosts(block) DEF Hosts
<1>4. v \in Nat
  BY ONLY <1>2, <1>3, AddressRead
<1>5. u \div H = a
  BY ONLY <1>1, r \in Nat, a \in Int, H \in Nat, DivUnique
<1>6. PICK s : s \in Nat /\ s = v % H /\ s < H
  BY ONLY <1>1, <1>4, H \in Nat
<1>7. v = a * H + s
  <2>1. H \in Nat /\ H > 0 /\ v \in Nat
    BY ONLY <1>1, <1>4, H \in Nat
  <2>2. v = (v \div H) * H + (v % H)
    BY ONLY <2>1
  <2> QED
    BY ONLY <1>3, <1>5, <1>6, <2>2
<1>8. PICK y : y \in Int /\ y = a * H
  OBVIOUS
<1>9. v = y + s /\ u = y + r
  BY ONLY <1>1, <1>7, <1>8
<1>10. r < s
  BY ONLY <1>3, <1>6, <1>8, <1>9, r \in Nat
<1>11. s + 1 # H
  <2> SUFFICES ASSUME s + 1 = H PROVE FALSE
    OBVIOUS
  <2>1. PICK b : b \in Int /\ b = a + 1
    OBVIOUS
  <2>2. b * H = y + H
    BY ONLY <1>8, <2>1, a \in Int, H \in Nat
  <2>3. PICK w : w = v + 1
    OBVIOUS
  <2>4. w = b * H + 0
    BY ONLY <1>6, <1>8, <1>9, <2>2, <2>3, s + 1 = H, H \in Nat
  <2>5. w % H = 0
    <3>1. 0 \in Nat /\ 0 < H /\ H > 0 /\ b \in Int /\ H \in Nat
      BY ONLY <1>1, <2>1, H \in Nat
    <3> QED
      BY ONLY <2>4, <3>1, DivUnique
  <2> QED
    BY ONLY <1>3, <2>3, <2>5
<1>12. PICK j : j \in Nat /\ j = s - r
  BY ONLY <1>6, <1>10, r \in Nat
<1>13. j > 0 /\ r + j + 1 < H /\ v = u + j
  BY ONLY <1>6, <1>8, <1>9, <1>10, <1>11, <1>12, r \in Nat, H \in Nat
<1> QED
  BY ONLY <1>2, <1>3, <1>12, <1>13

\* The pool is the block's hosts, for every block whose arithmetic does not wrap.
LEMMA PoolExact ==
  ASSUME NEW block \in Block, ~Wraps(block)
  PROVE  Pool(block) = Hosts(block)
<1>1. PICK h \in Nat, H \in Nat, u \in Nat, a \in Int, r \in Nat, x \in Int :
         Place(block, h, H, u, a, r, x)
  BY ONLY block \in Block, ~Wraps(block), RangeOf
<1>2. \A p : p \in Pool(block) <=> \E i \in (x + 1) .. (x - r + H - 2) : p = toIP(i)
  BY ONLY <1>1, block \in Block, PoolOf
<1>3. ASSUME NEW p \in Pool(block) PROVE p \in Hosts(block)
  <2>1. PICK i \in (x + 1) .. (x - r + H - 2) : p = toIP(i)
    BY ONLY <1>2, p \in Pool(block)
  <2>2. PICK j : j \in Nat /\ j = i - x
    BY ONLY i \in (x + 1) .. (x - r + H - 2), x \in Int
  <2>3. j > 0 /\ r + j + 1 < H /\ i = x + j
    BY ONLY <2>2, i \in (x + 1) .. (x - r + H - 2), x \in Int, r \in Nat, H \in Nat
  <2>4. HostOf(block, u + j, x + j)
    BY ONLY <1>1, <2>2, <2>3, block \in Block, HostAt
  <2>5. u + j \in Nat
    BY ONLY <2>2, u \in Nat
  <2>6. PICK ip \in Address : Unsigned(ip) = u + j
    BY ONLY <2>4, <2>5, AddressOf DEF HostOf
  <2> QED
    BY ONLY <2>1, <2>3, <2>4, <2>6 DEF HostOf
<1>4. ASSUME NEW p \in Hosts(block) PROVE p \in Pool(block)
  <2>1. PICK j \in Nat : j > 0 /\ r + j + 1 < H /\ Unsigned(p) = u + j /\ p \in Address
    BY ONLY <1>1, block \in Block, p \in Hosts(block), HostBetween
  <2>2. p = toIP(x + j)
    <3>1. HostOf(block, u + j, x + j)
      BY ONLY <1>1, <2>1, block \in Block, HostAt
    <3> QED
      BY ONLY <2>1, <3>1 DEF HostOf
  <2>3. x + j \in (x + 1) .. (x - r + H - 2)
    BY ONLY <2>1, j \in Nat, x \in Int, r \in Nat, H \in Nat
  <2> QED
    BY ONLY <1>2, <2>2, <2>3
<1> QED
  BY ONLY <1>3, <1>4

\* toIP yields four octets whatever integer it is given.
LEMMA ToIPType == \A i \in Int : toIP(i) \in Address
<1> SUFFICES ASSUME NEW i \in Int PROVE toIP(i) \in Address
  OBVIOUS
<1>1. \A s \in Nat \ {0} : Byte(i, s) \in Octet
  BY OctetAssumption DEF Byte, Octet
<1>2. OctetSize \in Nat \ {0}
  BY OctetAssumption
<1>3. OctetSize * OctetSize \in Nat \ {0}
  BY <1>2
<1>4. OctetSize * OctetSize * OctetSize \in Nat \ {0}
  BY <1>2, <1>3
<1> QED
  BY <1>1, <1>2, <1>3, <1>4 DEF toIP, Address

\* NewDHCP fills the pool with addresses only.
LEMMA PoolType == \A block : Pool(block) \subseteq Address
  BY ToIPType DEF Pool

\* Every host of the block is free or assigned and none is both, in every order
\* of SelectIP and ReleaseIP (dhcp.go:17-60), for octets of any width.
THEOREM PoolKept == D_Spec => []PoolInv
<1>1. NewDHCP => PoolInv
  <2> SUFFICES ASSUME NewDHCP PROVE PoolInv
    OBVIOUS
  <2>1. cidr \in Cidrs /\ free = Pool(cidr) /\ inuse = {} /\ cidr \in Block
    BY CidrAssumption DEF NewDHCP
  <2>2. D_TypeOK /\ Disjoint
    BY <2>1, PoolType DEF D_TypeOK, Disjoint
  <2>3. PoolIsHosts
    BY <2>1, PoolExact DEF PoolIsHosts
  <2> QED
    BY <2>2, <2>3 DEF PoolInv
<1>2. PoolInv /\ [D_Next]_D_vars => PoolInv'
  <2> SUFFICES ASSUME PoolInv, [D_Next]_D_vars PROVE PoolInv'
    OBVIOUS
  <2>1. cidr' = cidr /\ free' \cup inuse' = free \cup inuse
    BY DEF D_Next, D_vars, SelectIP, SelectIPFails, ReleaseIP
  <2>2. free' \cap inuse' = {}
    BY DEF PoolInv, Disjoint, D_Next, D_vars, SelectIP, SelectIPFails, ReleaseIP
  <2> QED
    BY <2>1, <2>2 DEF PoolInv, D_TypeOK, Disjoint, PoolIsHosts
<1> QED
  BY <1>1, <1>2, PTL DEF D_Spec
-----------------------------------------------------------------------------
(* Stacks of deferred calls *)

\* What a push adds.
LEMMA Pushed ==
  ASSUME NEW S, NEW s \in Seq(S), NEW e \in S
  PROVE  /\ Append(s, e) \in Seq(S)
         /\ DOMAIN s = 1 .. Len(s) /\ Len(s) \in Nat
         /\ DOMAIN Append(s, e) = 1 .. Len(s) + 1
         /\ \A i \in 1 .. Len(s) : Append(s, e)[i] = s[i]
         /\ Append(s, e)[Len(s) + 1] = e
  BY AppendProperties, LenProperties

\* What a pop leaves.
LEMMA Popped ==
  ASSUME NEW S, NEW s \in Seq(S), s # <<>>
  PROVE  /\ Len(s) \in Nat \ {0}
         /\ s[Len(s)] \in S
         /\ DOMAIN s = 1 .. Len(s)
         /\ SubSeq(s, 1, Len(s) - 1) \in Seq(S)
         /\ DOMAIN SubSeq(s, 1, Len(s) - 1) = 1 .. Len(s) - 1
         /\ \A i \in 1 .. Len(s) - 1 : SubSeq(s, 1, Len(s) - 1)[i] = s[i]
<1>1. Len(s) \in Nat \ {0}
  BY EmptySeq
<1>2. DOMAIN s = 1 .. Len(s)
  BY LenProperties
<1>3. \A i \in 1 .. Len(s) : s[i] \in S
  BY ElementOfSeq
<1> DEFINE f == SubSeq(s, 1, Len(s) - 1)
<1>4. /\ f \in Seq(S)
      /\ Len(f) = IF 1 <= Len(s) - 1 THEN Len(s) - 1 - 1 + 1 ELSE 0
      /\ \A i \in 1 .. Len(s) - 1 - 1 + 1 : f[i] = s[1 + i - 1]
  <2>1. 1 \in Int /\ Len(s) - 1 \in Int /\ \A i \in 1 .. Len(s) - 1 : s[i] \in S
    BY <1>1, <1>3
  <2> QED
    BY <2>1, SubSeqProperties
<1>5. Len(f) = Len(s) - 1
  <2>1. \A n \in Nat \ {0} : (IF 1 <= n - 1 THEN n - 1 - 1 + 1 ELSE 0) = n - 1
    OBVIOUS
  <2> HIDE DEF f
  <2> QED
    BY <1>1, <1>4, <2>1, Zenon
<1>6. DOMAIN f = 1 .. Len(s) - 1
  BY <1>4, <1>5, LenProperties
<1> QED
  BY <1>1, <1>2, <1>3, <1>4, <1>6
-----------------------------------------------------------------------------
(* Type correctness *)

LEMMA InitType == Init => TypeOK
<1> SUFFICES ASSUME Init PROVE TypeOK
  OBVIOUS
<1>1. D_TypeOK
  BY PoolType DEF Init, NewDHCP, D_TypeOK
<1>2. ZeroAuth \in AuthRequest
  BY DEF ZeroAuth, AuthRequest
<1> QED
  BY <1>1, <1>2, ServerAssumption DEF Init, P_Init, TypeOK, ProxyTypeOK, ConnTypeOK

\* The steps of the goroutines and of the gateway.
LEMMA BackgroundType == TypeOK /\ Background => TypeOK'
<1> SUFFICES ASSUME TypeOK, Background PROVE TypeOK'
  OBVIOUS
<1> USE DEF TypeOK, D_TypeOK, ProxyTypeOK, ConnTypeOK
<1>1. ASSUME NEW i \in spawned, RecyclerSelects(i), UNCHANGED <<D_vars, serverVars>> PROVE TypeOK'
  BY <1>1 DEF RecyclerSelects
<1>2. ASSUME NEW i \in signalled, RecyclerCloses(i), UNCHANGED <<D_vars, serverVars>> PROVE TypeOK'
  BY <1>2 DEF RecyclerCloses
<1>3. ASSUME NEW i \in accepting, LoopEnds(i), UNCHANGED <<D_vars, serverVars>> PROVE TypeOK'
  BY <1>3 DEF LoopEnds
<1>4. ASSUME NEW i \in posts, PostArrives(i), UNCHANGED <<D_vars, serverVars>> PROVE TypeOK'
  <2>1. i \in Item
    OBVIOUS
  <2>2. [Domain |-> i.Domain, Protocol |-> i.Protocol, To |-> i.To]
          \in [Domain : DomainName, Protocol : Protocol, To : Address \X LocalPort]
    BY <2>1 DEF Item, Meta
  <2> QED
    BY <1>4, <2>2 DEF PostArrives, Forget
<1>5. ASSUME NEW i \in posts, PostLost(i), UNCHANGED <<D_vars, serverVars>> PROVE TypeOK'
  BY <1>5 DEF PostLost
<1>6. ASSUME NEW k \in deletes, DeleteArrives(k), UNCHANGED <<D_vars, serverVars>> PROVE TypeOK'
  BY <1>6 DEF DeleteArrives, Forget
<1> QED
  BY <1>1, <1>2, <1>3, <1>4, <1>5, <1>6
  DEF Background, Goroutines, Gateway, LoopEndsOnClose, LoopFails
-----------------------------------------------------------------------------
LEMMA NewItemType ==
  ASSUME TypeOK, NEW c \in Conn, rest[c] # <<>>, NEW p \in Head(rest[c]).Ports,
         vip[c] \in Address, auth[c].Domain \in DomainName
  PROVE  NewItem(c, p) \in Item
<1>1. Head(rest[c]) \in Forwards
  BY DEF TypeOK, ConnTypeOK
<1>2. p \in Port \X LocalPort
  BY <1>1 DEF Forwards
<1> QED
  BY <1>1, <1>2 DEF NewItem, Item, Meta, Forwards

LEMMA RestType ==
  ASSUME TypeOK, NEW c \in Conn, rest[c] # <<>>, NEW p
  PROVE  Without(rest[c], p) \in Seq(Forwards)
<1>1. Head(rest[c]) \in Forwards /\ Tail(rest[c]) \in Seq(Forwards)
  BY DEF TypeOK, ConnTypeOK
<1>2. [Head(rest[c]) EXCEPT !.Ports = @ \ {p}] \in Forwards
  BY <1>1 DEF Forwards
<1> QED
  BY <1>1, <1>2 DEF Without

LEMMA AddProxyType ==
  ASSUME TypeOK, NEW item \in Item, AddProxy(item)
  PROVE  ProxyTypeOK'
  BY DEF TypeOK, ProxyTypeOK, AddProxy, RunProxy, RunListener, RunResty, RunDummy

LEMMA DelProxyType ==
  ASSUME TypeOK, NEW item \in Item, DelProxy(item)
  PROVE  ProxyTypeOK'
<1>1. hostKey(item) \in [Domain : DomainName, Protocol : Protocol]
  BY DEF hostKey, Item, Meta
<1> QED
  BY <1>1 DEF TypeOK, ProxyTypeOK, DelProxy, StopProxy, StopListener, StopResty,
              StopDummy, Forget
-----------------------------------------------------------------------------
\* Every step of a connection preserves the types and the stages.
LEMMA StepType ==
  ASSUME TypeOK, Stages, NEW c \in Conn, Step(c)
  PROVE  TypeOK' /\ Stages'
<1> USE DEF TypeOK, D_TypeOK, ConnTypeOK, Stages, Goto, Closed
<1>1. CASE Accept(c)
  BY <1>1 DEF Accept, ProxyTypeOK
<1>2. CASE ReadAuth(c)
  <2>0. PICK req \in Requests : \E d \in DomainOf(c, req.Domain) :
          /\ auth' = [auth EXCEPT ![c] = [req EXCEPT !.Domain = d]]
          /\ rest' = [rest EXCEPT ![c] = req.Forward]
    BY <1>2 DEF ReadAuth
  <2>1. PICK d \in DomainOf(c, req.Domain) :
          /\ auth' = [auth EXCEPT ![c] = [req EXCEPT !.Domain = d]]
          /\ rest' = [rest EXCEPT ![c] = req.Forward]
    BY <2>0
  <2>2. req \in AuthRequest
    BY ServerAssumption
  <2>3. d \in DomainName
    BY <2>2, ServerAssumption DEF DomainOf, AuthRequest
  <2>4. [req EXCEPT !.Domain = d] \in AuthRequest /\ req.Forward \in Seq(Forwards)
    BY <2>2, <2>3 DEF AuthRequest
  <2>5. [req EXCEPT !.Domain = d].Domain = d
    BY <2>2 DEF AuthRequest
  <2> QED
    BY <1>2, <2>1, <2>3, <2>4, <2>5 DEF ReadAuth, ProxyTypeOK
<1>3. CASE AuthFails(c)
  BY <1>3 DEF AuthFails, ProxyTypeOK
<1>4. CASE SelectVip(c)
  <2>1. PICK ip \in free : SelectIP(ip) /\ vip' = [vip EXCEPT ![c] = ip]
    BY <1>4 DEF SelectVip
  <2> QED
    BY <1>4, <2>1 DEF SelectVip, SelectIP, ProxyTypeOK
<1>5. CASE SelectVipFails(c)
  BY <1>5 DEF SelectVipFails, SelectIPFails, ProxyTypeOK
<1>6. CASE ApplyDomain(c)
  BY <1>6 DEF ApplyDomain, ProxyTypeOK
<1>7. CASE ApplyDomainFails(c)
  BY <1>7 DEF ApplyDomainFails, ProxyTypeOK
<1>8. CASE AddForward(c)
  <2>1. PICK p \in Head(rest[c]).Ports :
          /\ AddProxy(NewItem(c, p))
          /\ defers' = [defers EXCEPT ![c] = Append(@, NewItem(c, p))]
          /\ rest' = [rest EXCEPT ![c] = Without(@, p)]
    BY <1>8 DEF AddForward
  <2>2. NewItem(c, p) \in Item
    BY <1>8, NewItemType DEF AddForward
  <2>3. ProxyTypeOK'
    BY <2>1, <2>2, AddProxyType
  <2>4. rest' \in [Conn -> Seq(Forwards)]
    <3>1. Without(rest[c], p) \in Seq(Forwards)
      BY <1>8, RestType DEF AddForward
    <3>2. rest \in [Conn -> Seq(Forwards)]
      OBVIOUS
    <3> QED
      BY <2>1, <3>1, <3>2, Zenon
  <2>5. defers' \in [Conn -> Seq(Item)]
    <3>1. defers \in [Conn -> Seq(Item)]
      OBVIOUS
    <3>2. Append(defers[c], NewItem(c, p)) \in Seq(Item)
      BY <2>2, <3>1, Pushed
    <3> QED
      BY <2>1, <3>1, <3>2, Zenon
  <2> QED
    BY <1>8, <2>1, <2>3, <2>4, <2>5 DEF AddForward
<1>9. CASE AddForwardFails(c)
  BY <1>9 DEF AddForwardFails, AddProxyFails, ProxyTypeOK
<1>10. CASE NextForward(c)
  BY <1>10 DEF NextForward, ProxyTypeOK
<1>11. CASE AllAdded(c)
  BY <1>11 DEF AllAdded, ProxyTypeOK
<1>12. CASE Reply(c)
  BY <1>12 DEF Reply, ProxyTypeOK
<1>13. CASE ReplyFails(c)
  BY <1>13 DEF ReplyFails, ProxyTypeOK
<1>14. CASE OpenSession(c)
  BY <1>14 DEF OpenSession, AddSession, ProxyTypeOK
<1>15. CASE SessionEnds(c)
  BY <1>15 DEF SessionEnds, ProxyTypeOK
<1>16. CASE EndSession(c)
  BY <1>16 DEF EndSession, DeleteSession, ProxyTypeOK
<1>17. CASE Unwind(c)
  <2> DEFINE n == Len(defers[c])
  <2>1. defers[c][n] \in Item /\ SubSeq(defers[c], 1, n - 1) \in Seq(Item)
    BY <1>17, Popped DEF Unwind
  <2>2. ProxyTypeOK'
    BY <1>17, <2>1, DelProxyType DEF Unwind
  <2> QED
    BY <1>17, <2>1, <2>2 DEF Unwind
<1>18. CASE Unwound(c)
  BY <1>18 DEF Unwound, ProxyTypeOK
<1>19. CASE LinkDies(c)
  BY <1>19 DEF LinkDies, ProxyTypeOK
<1>20. CASE Multiplexer(c)
  BY <1>20 DEF Multiplexer, BufferFills, BufferDrains, KeepaliveExpires, ProxyTypeOK
<1> QED
  BY <1>1, <1>2, <1>3, <1>4, <1>5, <1>6, <1>7, <1>8, <1>9, <1>10, <1>11, <1>12,
     <1>13, <1>14, <1>15, <1>16, <1>17, <1>18, <1>19, <1>20 DEF Step, Progress

LEMMA CrashType ==
  ASSUME TypeOK, Stages, Crash
  PROVE  TypeOK' /\ Stages'
<1>1. ZeroAuth \in AuthRequest
  BY DEF ZeroAuth, AuthRequest
<1>2. D_TypeOK'
  BY PoolType DEF Crash, TypeOK, D_TypeOK
<1>3. ConnTypeOK' /\ Stages'
  BY <1>1 DEF Crash, TypeOK, ConnTypeOK, Stages, Forgotten
<1> QED
  BY <1>2, <1>3, ServerAssumption DEF Crash, TypeOK, ProxyTypeOK

LEMMA TypeNext ==
  ASSUME TypeOK, Stages, [Next]_vars
  PROVE  TypeOK' /\ Stages'
<1>1. CASE UNCHANGED vars
  BY <1>1 DEF TypeOK, D_TypeOK, ProxyTypeOK, ConnTypeOK, Stages
<1>2. CASE Background
  BY <1>2, BackgroundType DEF Background, Stages
<1> QED
  BY <1>1, <1>2, StepType, CrashType DEF Next

\* Every variable keeps its type in every reachable state.
THEOREM ServerType == Spec => []TypeOK
<1>1. Init => TypeOK /\ Stages
  BY InitType DEF Init, Stages
<1>2. (TypeOK /\ Stages) /\ [Next]_vars => (TypeOK /\ Stages)'
  BY TypeNext
<1> QED
  BY <1>1, <1>2, PTL DEF Spec
-----------------------------------------------------------------------------
(* Routes and deferred calls *)

\* Only two steps of a connection touch the routes or the deferred calls.
LEMMA RoutesQuiet ==
  ASSUME NEW c \in Conn, Step(c), ~AddForward(c), ~Unwind(c)
  PROVE  UNCHANGED <<routes, defers>>
  BY DEF Step, Progress, Accept, ReadAuth, AuthFails, SelectVip, SelectVipFails,
         ApplyDomain, ApplyDomainFails, AddForwardFails, AddProxyFails,
         NextForward, AllAdded, Reply, ReplyFails, OpenSession, SessionEnds,
         EndSession, Unwound, LinkDies, Multiplexer, BufferFills, BufferDrains, KeepaliveExpires

LEMMA RouteAdd ==
  ASSUME TypeOK, Stages, RouteOwner, NEW c \in Conn, AddForward(c)
  PROVE  RouteOwner'
<1>1. PICK p \in Head(rest[c]).Ports :
        /\ AddProxy(NewItem(c, p))
        /\ defers' = [defers EXCEPT ![c] = Append(@, NewItem(c, p))]
  BY DEF AddForward
<1> DEFINE item == NewItem(c, p)
           old == defers[c]
           new == Append(old, item)
<1>2. item \in Item
  BY NewItemType DEF AddForward, Stages
<1>3. item.conn = c
  BY DEF NewItem
<1>4. old \in Seq(Item) /\ defers \in [Conn -> Seq(Item)]
  BY DEF TypeOK, ConnTypeOK
<1>5. /\ DOMAIN old = 1 .. Len(old) /\ Len(old) \in Nat
      /\ DOMAIN new = 1 .. Len(old) + 1
      /\ \A i \in 1 .. Len(old) : new[i] = old[i]
      /\ new[Len(old) + 1] = item
  BY <1>2, <1>4, Pushed
<1>6. routes' = routes \cup {item}
  BY <1>1 DEF AddProxy
<1>7. \A r \in routes : identify(r) # identify(item)
  BY <1>1 DEF AddProxy, InUse
<1>8. defers'[c] = new /\ \A d \in Conn : d # c => defers'[d] = defers[d]
  BY <1>1, <1>4
<1> HIDE DEF item, old, new
<1>9. \A r, s \in routes' : identify(r) = identify(s) => r = s
  BY <1>6, <1>7 DEF RouteOwner
<1>10. \A r \in routes' : \E n \in DOMAIN defers'[r.conn] : defers'[r.conn][n] = r
  <2> SUFFICES ASSUME NEW r \in routes'
               PROVE  \E n \in DOMAIN defers'[r.conn] : defers'[r.conn][n] = r
    OBVIOUS
  <2>1. CASE r = item
    <3>1. Len(old) + 1 \in 1 .. Len(old) + 1
      BY <1>5
    <3> QED
      BY <2>1, <3>1, <1>3, <1>5, <1>8
  <2>2. CASE r \in routes
    <3>1. PICK n \in DOMAIN defers[r.conn] : defers[r.conn][n] = r
      BY <2>2 DEF RouteOwner
    <3>2. r.conn \in Conn
      BY <2>2 DEF TypeOK, ProxyTypeOK, Item, Meta
    <3>3. CASE r.conn = c
      <4>1. n \in 1 .. Len(old) /\ old[n] = r
        BY <3>1, <3>3, <1>5 DEF old
      <4>2. n \in DOMAIN new /\ new[n] = r
        BY <4>1, <1>5
      <4> QED
        BY <4>2, <3>3, <1>8
    <3> QED
      BY <3>1, <3>2, <3>3, <1>8
  <2> QED
    BY <2>1, <2>2, <1>6
<1>11. ASSUME NEW d \in Conn, NEW n \in DOMAIN defers'[d]
       PROVE  /\ defers'[d][n] \in routes'
              /\ defers'[d][n].conn = d
              /\ \A m \in DOMAIN defers'[d] : defers'[d][m] = defers'[d][n] => m = n
  <2>1. CASE d # c
    BY <1>6, <1>8, <2>1 DEF RouteOwner
  <2>2. CASE d = c
    <3>1. \A i \in 1 .. Len(old) :
            /\ new[i] \in routes /\ new[i].conn = c
            /\ \A j \in 1 .. Len(old) : new[j] = new[i] => j = i
      BY <1>5 DEF RouteOwner, old
    <3>2. \A i \in 1 .. Len(old) : new[i] # item
      BY <3>1, <1>7
    <3>3. \A i \in DOMAIN new : i \in 1 .. Len(old) \/ i = Len(old) + 1
      BY <1>5
    <3> QED
      BY <2>2, <3>1, <3>2, <3>3, <1>3, <1>5, <1>6, <1>8
  <2> QED
    BY <2>1, <2>2
<1> QED
  BY <1>9, <1>10, <1>11 DEF RouteOwner

LEMMA RouteDel ==
  ASSUME TypeOK, RouteOwner, NEW c \in Conn, Unwind(c)
  PROVE  RouteOwner'
<1> DEFINE old == defers[c]
           last == Len(old)
           item == old[last]
           new == SubSeq(old, 1, last - 1)
<1>1. old \in Seq(Item) /\ defers \in [Conn -> Seq(Item)] /\ old # <<>>
  BY DEF TypeOK, ConnTypeOK, Unwind
<1>2. /\ last \in Nat \ {0} /\ DOMAIN old = 1 .. last
      /\ DOMAIN new = 1 .. last - 1
      /\ \A i \in 1 .. last - 1 : new[i] = old[i]
  BY <1>1, Popped
<1>3. item \in routes /\ item.conn = c
  BY <1>2 DEF RouteOwner
<1>4. routes' = {r \in routes : identify(r) # identify(item)}
  BY DEF Unwind, DelProxy
<1>5. routes' = routes \ {item}
  BY <1>3, <1>4 DEF RouteOwner
<1>6. defers'[c] = new /\ \A d \in Conn : d # c => defers'[d] = defers[d]
  BY <1>1 DEF Unwind
<1>7. \A i \in 1 .. last - 1 : i \in DOMAIN old /\ i # last
  BY <1>2
<1>8. last \in DOMAIN old
  BY <1>2
<1>9. \A i \in 1 .. last - 1 :
        /\ new[i] \in routes' /\ new[i].conn = c
        /\ \A j \in 1 .. last - 1 : new[j] = new[i] => j = i
  <2>1. \A i \in DOMAIN old :
          /\ old[i] \in routes /\ old[i].conn = c
          /\ \A j \in DOMAIN old : old[j] = old[i] => j = i
    BY DEF RouteOwner
  <2> HIDE DEF old, last, item, new
  <2>2. \A i \in 1 .. last - 1 : old[i] # item
    <3>1. item = old[last]
      BY DEF item
    <3> QED
      BY <2>1, <3>1, <1>7, <1>8
  <2> QED
    BY <2>1, <2>2, <1>2, <1>5, <1>7
<1>10. \A r \in routes' : r.conn = c => \E n \in 1 .. last - 1 : new[n] = r
  <2> SUFFICES ASSUME NEW r \in routes', r.conn = c
               PROVE  \E n \in 1 .. last - 1 : new[n] = r
    OBVIOUS
  <2>1. PICK n \in DOMAIN old : old[n] = r
    BY <1>5 DEF RouteOwner
  <2>2. n # last
    BY <2>1, <1>5
  <2>3. n \in 1 .. last - 1
    BY <2>1, <2>2, <1>2
  <2> QED
    BY <2>1, <2>3, <1>2
<1>11. \A r \in routes' : r.conn \in Conn /\ r \in routes /\ r # item
  BY <1>5 DEF TypeOK, ProxyTypeOK, Item, Meta
<1> HIDE DEF old, last, item, new
<1>12. \A d \in Conn : d # c => \A n \in DOMAIN defers[d] : defers[d][n] # item
  BY <1>3 DEF RouteOwner
<1>13. \A r, s \in routes' : identify(r) = identify(s) => r = s
  BY <1>11 DEF RouteOwner
<1>14. \A r \in routes' : \E n \in DOMAIN defers'[r.conn] : defers'[r.conn][n] = r
  BY <1>2, <1>6, <1>10, <1>11 DEF RouteOwner
<1>15. ASSUME NEW d \in Conn, NEW n \in DOMAIN defers'[d]
       PROVE  /\ defers'[d][n] \in routes'
              /\ defers'[d][n].conn = d
              /\ \A m \in DOMAIN defers'[d] : defers'[d][m] = defers'[d][n] => m = n
  <2>1. CASE d = c
    BY <2>1, <1>2, <1>6, <1>9
  <2>2. CASE d # c
    BY <2>2, <1>5, <1>6, <1>12 DEF RouteOwner
  <2> QED
    BY <2>1, <2>2
<1> QED
  BY <1>13, <1>14, <1>15 DEF RouteOwner

LEMMA RouteNext ==
  ASSUME TypeOK, Stages, RouteOwner, [Next]_vars
  PROVE  RouteOwner'
<1>1. ASSUME UNCHANGED <<routes, defers>> PROVE RouteOwner'
  BY <1>1 DEF RouteOwner
<1>2. CASE UNCHANGED vars
  BY <1>1, <1>2
<1>3. ASSUME NEW c \in Conn, Step(c) PROVE RouteOwner'
  BY <1>1, <1>3, RoutesQuiet, RouteAdd, RouteDel
<1>4. CASE Background
  <2>1. UNCHANGED <<routes, defers>>
    BY <1>4 DEF Background, Goroutines, Gateway, RecyclerSelects, RecyclerCloses,
                LoopEndsOnClose, LoopFails, LoopEnds, PostArrives, PostLost,
                DeleteArrives
  <2> QED
    BY <1>1, <2>1
<1>5. CASE Crash
  <2>1. routes' = {}
    BY <1>5 DEF Crash
  <2>2. \A c \in Conn : defers'[c] = <<>>
    BY <1>5 DEF Crash, Forgotten, Stages
  <2> QED
    BY <2>1, <2>2 DEF RouteOwner
<1> QED
  BY <1>2, <1>3, <1>4, <1>5 DEF Next
-----------------------------------------------------------------------------
(* Addresses, sessions and the targets of listeners *)

InService(c) == pc[c] \in {"serve", "delsess"}

\* The steps that change neither the addresses, nor the session table, nor who
\* is served.
LEMMA VipQuiet ==
  ASSUME TypeOK, NEW c \in Conn, Step(c),
         ~SelectVip(c), ~OpenSession(c), ~EndSession(c)
  PROVE  /\ UNCHANGED <<free, inuse, vip, sessions>>
         /\ \A d \in Conn : InService(d)' <=> InService(d)
  BY DEF Step, Progress, Accept, ReadAuth, AuthFails, SelectVipFails,
         SelectIPFails, ApplyDomain, ApplyDomainFails, AddForward,
         AddForwardFails, NextForward, AllAdded, Reply, ReplyFails,
         SessionEnds, Unwind, Unwound, LinkDies, Multiplexer, BufferFills, BufferDrains,
         KeepaliveExpires, Goto, Closed,
         InService, TypeOK, ConnTypeOK

\* The session table, entry by entry.
LEMMA SessionsByEntry ==
  SessionsExact <=>
    /\ \A s \in sessions : \E c \in Conn :
         InService(c) /\ s = [vip |-> vip[c], conn |-> c]
    /\ \A c \in Conn : InService(c) => [vip |-> vip[c], conn |-> c] \in sessions
  BY DEF SessionsExact, InService

LEMMA VipNext ==
  ASSUME TypeOK, Stages, Disjoint, VipExclusive, SessionsExact, [Next]_vars
  PROVE  Disjoint' /\ VipExclusive' /\ SessionsExact'
<1>1. ASSUME UNCHANGED <<free, inuse, vip, sessions>>,
             \A d \in Conn : InService(d)' <=> InService(d)
      PROVE  Disjoint' /\ VipExclusive' /\ SessionsExact'
  BY <1>1 DEF Disjoint, VipExclusive, SessionsExact, InService
<1>2. CASE UNCHANGED vars
  BY <1>1, <1>2 DEF InService
<1>3. CASE Background
  BY <1>1, <1>3 DEF Background, InService
<1>4. ASSUME NEW c \in Conn, SelectVip(c)
      PROVE  Disjoint' /\ VipExclusive' /\ SessionsExact'
  <2>1. PICK ip \in free : SelectIP(ip) /\ vip' = [vip EXCEPT ![c] = ip]
    BY <1>4 DEF SelectVip
  <2>2. ip \notin inuse /\ inuse' = inuse \cup {ip} /\ free' = free \ {ip}
    BY <2>1 DEF SelectIP, Disjoint
  <2>3. vip'[c] = ip /\ \A d \in Conn : d # c => vip'[d] = vip[d]
    BY <2>1 DEF TypeOK, ConnTypeOK
  <2>4. sessions' = sessions /\ ~InService(c) /\ \A d \in Conn : InService(d)' <=> InService(d)
    BY <1>4 DEF SelectVip, Goto, InService, TypeOK, ConnTypeOK
  <2>5. Disjoint' /\ VipExclusive'
    BY <2>2, <2>3 DEF Disjoint, VipExclusive
  <2>6. SessionsExact'
    BY <2>3, <2>4 DEF SessionsExact, InService
  <2> QED
    BY <2>5, <2>6
<1>5. ASSUME NEW c \in Conn, OpenSession(c)
      PROVE  Disjoint' /\ VipExclusive' /\ SessionsExact'
  <2>1. UNCHANGED <<free, inuse, vip>>
    BY <1>5 DEF OpenSession
  <2>2. /\ ~InService(c) /\ InService(c)'
        /\ \A d \in Conn : d # c => (InService(d)' <=> InService(d))
    BY <1>5 DEF OpenSession, Goto, InService, TypeOK, ConnTypeOK
  <2>3. vip[c] # NoVip
    BY <1>5, ServerAssumption DEF OpenSession, Goto, Stages
  <2>4. \A s \in sessions : s.vip # vip[c]
    BY <2>2, <2>3, SessionsByEntry DEF VipExclusive
  <2>5. sessions' = sessions \cup {[vip |-> vip[c], conn |-> c]}
    BY <1>5, <2>4 DEF OpenSession, AddSession
  <2>6. SessionsExact'
    BY <2>1, <2>2, <2>5 DEF SessionsExact, InService
  <2> QED
    BY <2>1, <2>6 DEF Disjoint, VipExclusive
<1>6. ASSUME NEW c \in Conn, EndSession(c)
      PROVE  Disjoint' /\ VipExclusive' /\ SessionsExact'
  <2>1. UNCHANGED <<free, inuse, vip>>
    BY <1>6 DEF EndSession
  <2>2. /\ ~InService(c)'
        /\ \A d \in Conn : d # c => (InService(d)' <=> InService(d))
    BY <1>6 DEF EndSession, Goto, InService, TypeOK, ConnTypeOK
  <2>3. vip[c] # NoVip
    BY <1>6, ServerAssumption DEF EndSession, Goto, Stages
  <2>4. \A d \in Conn : d # c => vip[d] # vip[c]
    BY <2>3 DEF VipExclusive
  <2>5. sessions' = {s \in sessions : s.vip # vip[c]}
    BY <1>6 DEF EndSession, DeleteSession
  <2>6. SessionsExact'
    BY <2>1, <2>2, <2>4, <2>5 DEF SessionsExact, InService
  <2> QED
    BY <2>1, <2>6 DEF Disjoint, VipExclusive
<1>7. CASE Crash
  <2>1. free' = Pool(cidr) /\ inuse' = {} /\ sessions' = {}
    BY <1>7 DEF Crash
  <2>2. \A c \in Conn : vip'[c] = NoVip
    BY <1>7 DEF Crash, Forgotten, Stages
  <2>3. \A c \in Conn : pc'[c] \in {"idle", "closed"}
    BY <1>7 DEF Crash, Forgotten
  <2> QED
    BY <2>1, <2>2, <2>3 DEF Disjoint, VipExclusive, SessionsExact
<1>8. ASSUME NEW c \in Conn, Step(c)
      PROVE  Disjoint' /\ VipExclusive' /\ SessionsExact'
  BY <1>1, <1>4, <1>5, <1>6, <1>8, VipQuiet
<1> QED
  BY <1>2, <1>3, <1>7, <1>8 DEF Next

\* A step of a connection opens a listener for itself only, and gives an
\* address only to a connection that had none.
LEMMA TargetsStep ==
  ASSUME TypeOK, Stages, TargetsOwned, NEW c \in Conn, Step(c)
  PROVE  TargetsOwned'
<1>1. ASSUME UNCHANGED <<listening, vip>> PROVE TargetsOwned'
  BY <1>1 DEF TargetsOwned
<1>2. CASE SelectVip(c)
  <2>1. listening' = listening
    BY <1>2 DEF SelectVip
  <2>2. vip[c] = NoVip /\ \A d \in Conn : d # c => vip'[d] = vip[d]
    BY <1>2 DEF SelectVip, Goto, Stages, TypeOK, ConnTypeOK
  <2>3. \A i \in listening : i.conn \in Conn /\ i.To[1] \in Address
    BY DEF TypeOK, ProxyTypeOK, Item, Meta
  <2> QED
    BY <2>1, <2>2, <2>3, ServerAssumption DEF TargetsOwned
<1>3. CASE AddForward(c)
  <2>1. PICK p \in Head(rest[c]).Ports : AddProxy(NewItem(c, p))
    BY <1>3 DEF AddForward
  <2>2. listening' \subseteq listening \cup {NewItem(c, p)}
    BY <2>1 DEF AddProxy, RunProxy, RunListener, RunResty, RunDummy
  <2>3. NewItem(c, p).conn = c /\ NewItem(c, p).To[1] = vip[c]
    BY DEF NewItem
  <2>4. vip' = vip
    BY <1>3 DEF AddForward
  <2> QED
    BY <2>2, <2>3, <2>4 DEF TargetsOwned
<1>4. CASE Unwind(c)
  <2>1. UNCHANGED <<listening, vip>>
    BY <1>4 DEF Unwind, DelProxy, StopProxy, StopListener, StopResty, StopDummy
  <2> QED
    BY <1>1, <2>1
<1>5. ASSUME ~SelectVip(c), ~AddForward(c), ~Unwind(c)
      PROVE  UNCHANGED <<listening, vip>>
  BY <1>5 DEF Step, Progress, Accept, ReadAuth, AuthFails, SelectVipFails,
              SelectIPFails, ApplyDomain, ApplyDomainFails, AddForwardFails,
              AddProxyFails, NextForward, AllAdded, Reply, ReplyFails,
              OpenSession, SessionEnds, EndSession, Unwound, LinkDies,
              Multiplexer, BufferFills, BufferDrains, KeepaliveExpires
<1> QED
  BY <1>1, <1>2, <1>3, <1>4, <1>5

LEMMA TargetsNext ==
  ASSUME TypeOK, Stages, TargetsOwned, [Next]_vars
  PROVE  TargetsOwned'
<1>1. CASE UNCHANGED vars
  BY <1>1 DEF TargetsOwned
<1>2. CASE Background
  <2>1. vip' = vip /\ listening' \subseteq listening
    BY <1>2 DEF Background, Goroutines, Gateway, RecyclerSelects, RecyclerCloses,
                LoopEndsOnClose, LoopFails, LoopEnds, PostArrives, PostLost,
                DeleteArrives
  <2> QED
    BY <2>1 DEF TargetsOwned
<1>3. CASE Crash
  BY <1>3 DEF Crash, TargetsOwned
<1> QED
  BY <1>1, <1>2, <1>3, TargetsStep DEF Next
-----------------------------------------------------------------------------
(* The inductive invariant and what follows from it *)

\* The inductive invariant holds in every reachable state.
THEOREM ServerInvariant == Spec => []IInv
<1>1. Init => IInv
  <2> SUFFICES ASSUME Init PROVE IInv
    OBVIOUS
  <2>1. TypeOK
    BY InitType
  <2>2. Disjoint
    BY DEF Init, NewDHCP, Disjoint
  <2>3. Stages /\ VipExclusive /\ SessionsExact
    BY DEF Init, Stages, VipExclusive, SessionsExact
  <2>4. RouteOwner /\ TargetsOwned
    BY DEF Init, P_Init, RouteOwner, TargetsOwned
  <2> QED
    BY <2>1, <2>2, <2>3, <2>4 DEF IInv
<1>2. IInv /\ [Next]_vars => IInv'
  BY TypeNext, RouteNext, VipNext, TargetsNext DEF IInv
<1> QED
  BY <1>1, <1>2, PTL DEF Spec

\* The routes map and the deferred DelProxy calls always agree.
THEOREM RoutesOwned == Spec => []RouteOwner
<1>1. IInv => RouteOwner
  BY DEF IInv
<1> QED
  BY <1>1, ServerInvariant, PTL

\* An address is held by one connection at a time.
THEOREM VipsExclusive == Spec => []VipExclusive
<1>1. IInv => VipExclusive
  BY DEF IInv
<1> QED
  BY <1>1, ServerInvariant, PTL

\* The session table holds the connections being served and nothing else.
THEOREM SessionTable == Spec => []SessionsExact
<1>1. IInv => SessionsExact
  BY DEF IInv
<1> QED
  BY <1>1, ServerInvariant, PTL

\* A connection that is over has left no route and no session behind.
THEOREM ExitsCleanly == Spec => []CleanExit
<1>1. ASSUME IInv PROVE CleanExit
  <2> SUFFICES ASSUME NEW c \in Conn, pc[c] = "closed"
               PROVE  (\A r \in routes : r.conn # c) /\ (\A s \in sessions : s.conn # c)
    BY DEF CleanExit
  <2>1. defers[c] = <<>>
    BY <1>1 DEF IInv, Stages
  <2>2. \A r \in routes : r.conn # c
    BY <1>1, <2>1 DEF IInv, RouteOwner
  <2>3. \A s \in sessions : s.conn # c
    BY <1>1 DEF IInv, SessionsExact
  <2> QED
    BY <2>2, <2>3
<1> QED
  BY <1>1, ServerInvariant, PTL

\* A listener, leaked or not, never leads to the session of a stranger.
THEOREM ListenersIsolated == Spec => []ListenerIsolation
<1>1. ASSUME IInv PROVE ListenerIsolation
  <2> SUFFICES ASSUME NEW i \in listening, NEW s \in sessions, s.vip = i.To[1]
               PROVE  s.conn = i.conn
    BY DEF ListenerIsolation
  <2>1. i.conn \in Conn /\ i.To[1] \in Address /\ i.To[1] = vip[i.conn]
    BY <1>1 DEF IInv, TargetsOwned, TypeOK, ProxyTypeOK, Item, Meta
  <2>2. PICK c \in Conn : s = [vip |-> vip[c], conn |-> c]
    BY <1>1 DEF IInv, SessionsExact
  <2>3. vip[c] = vip[i.conn] /\ vip[c] # NoVip
    BY <2>1, <2>2, ServerAssumption
  <2> QED
    BY <1>1, <2>1, <2>2, <2>3 DEF IInv, VipExclusive
<1> QED
  BY <1>1, ServerInvariant, PTL
-----------------------------------------------------------------------------
(* Sockets of registered proxies *)

\* Only connections that are leaving have had recyclers signalled.
SignalledLeave == \A i \in signalled : pc[i.conn] \in {"unwind", "closed"}

LEMMA KeptNext ==
  ASSUME IInv, SignalledLeave, ListenerKept, [Next]_vars
  PROVE  SignalledLeave' /\ ListenerKept'
<1> USE DEF SignalledLeave, ListenerKept
<1>0. /\ TypeOK /\ RouteOwner
      /\ \A i \in signalled : i.conn \in Conn
  BY DEF IInv, TypeOK, ProxyTypeOK, Item, Meta
<1>1. CASE UNCHANGED vars
  BY <1>1
<1>2. CASE Background
  <2>1. ASSUME NEW i \in spawned, RecyclerSelects(i), pc' = pc PROVE SignalledLeave' /\ ListenerKept'
    BY <2>1 DEF RecyclerSelects
  <2>2. ASSUME NEW i \in signalled, RecyclerCloses(i), pc' = pc PROVE SignalledLeave' /\ ListenerKept'
    BY <2>2 DEF RecyclerCloses
  <2>3. ASSUME NEW i \in accepting, LoopEnds(i), pc' = pc PROVE SignalledLeave' /\ ListenerKept'
    BY <2>3 DEF LoopEnds
  <2>4. ASSUME Gateway, pc' = pc PROVE SignalledLeave' /\ ListenerKept'
    BY <2>4 DEF Gateway, PostArrives, PostLost, DeleteArrives
  <2> QED
    BY <1>2, <2>1, <2>2, <2>3, <2>4 DEF Background, Goroutines, LoopEndsOnClose, LoopFails
<1>3. CASE Crash
  BY <1>3 DEF Crash
<1>4. ASSUME NEW c \in Conn, AddForward(c) PROVE SignalledLeave' /\ ListenerKept'
  <2>1. PICK p \in Head(rest[c]).Ports : AddProxy(NewItem(c, p))
    BY <1>4 DEF AddForward
  <2> DEFINE item == NewItem(c, p)
  <2>2. item.conn = c
    BY DEF NewItem
  <2> HIDE DEF item
  <2>3. /\ routes' = routes \cup {item} /\ pc' = pc /\ pc[c] = "add" /\ signalled' = signalled
        /\ \/ listening' = listening \cup {item} /\ accepting' = accepting \cup {item}
           \/ /\ listening' = listening /\ accepting' = accepting
              /\ item.Protocol \notin Listening
    BY <1>4, <2>1 DEF AddForward, AddProxy, RunProxy, RunListener, RunResty, RunDummy, item,
                      Listening, Resty
  <2>4. item \notin signalled
    BY <2>2, <2>3
  <2> QED
    BY <2>3, <2>4
<1>5. ASSUME NEW c \in Conn, Unwind(c) PROVE SignalledLeave' /\ ListenerKept'
  <2> DEFINE item == defers[c][Len(defers[c])]
  <2>1. item.conn = c
    <3>1. defers[c] \in Seq(Item) /\ defers[c] # <<>>
      BY <1>0, <1>5 DEF TypeOK, ConnTypeOK, Unwind
    <3>2. Len(defers[c]) \in DOMAIN defers[c]
      BY <3>1, Popped
    <3> QED
      BY <1>0, <3>2 DEF RouteOwner
  <2> HIDE DEF item
  <2>2. /\ routes' \subseteq routes \ {item} /\ pc' = pc /\ pc[c] = "unwind"
        /\ signalled' \subseteq signalled \cup {item}
        /\ listening' = listening /\ accepting' = accepting
    BY <1>5 DEF Unwind, DelProxy, StopProxy, StopListener, StopResty, StopDummy, item
  <2> QED
    BY <2>1, <2>2
<1>6. ASSUME NEW c \in Conn, Step(c), ~AddForward(c), ~Unwind(c)
      PROVE  SignalledLeave' /\ ListenerKept'
  <2>1. UNCHANGED <<routes, signalled, listening, accepting>>
    BY <1>6 DEF Step, Progress, Accept, ReadAuth, AuthFails, SelectVip, SelectVipFails,
       ApplyDomain, ApplyDomainFails, AddForwardFails, AddProxyFails, NextForward, AllAdded,
       Reply, ReplyFails, OpenSession, SessionEnds, EndSession, Unwound, LinkDies,
       Multiplexer, BufferFills, BufferDrains, KeepaliveExpires
  <2>2. \A d \in Conn : pc[d] \in {"unwind", "closed"} => pc'[d] \in {"unwind", "closed"}
    BY <1>0, <1>6 DEF TypeOK, ConnTypeOK, Step, Progress, Accept, ReadAuth, AuthFails,
       SelectVip, SelectVipFails, ApplyDomain, ApplyDomainFails, AddForwardFails,
       NextForward, AllAdded, Reply, ReplyFails, OpenSession, SessionEnds, EndSession,
       Unwound, LinkDies, Multiplexer, BufferFills, BufferDrains, KeepaliveExpires, Goto, Closed
  <2> QED
    BY <1>0, <2>1, <2>2
<1> QED
  BY <1>1, <1>2, <1>3, <1>4, <1>5, <1>6 DEF Next

\* Nobody closes the socket of a registered proxy whose loop runs, and nobody
\* tells its recycler to (tcpproxy.go:21-27, udpproxy.go:63-106).
THEOREM ListenersKept == Spec => []ListenerKept
<1>1. Init => SignalledLeave /\ ListenerKept
  BY DEF Init, P_Init, SignalledLeave, ListenerKept
<1>2. IInv /\ SignalledLeave /\ ListenerKept /\ [Next]_vars => SignalledLeave' /\ ListenerKept'
  BY KeptNext
<1> QED
  BY <1>1, <1>2, ServerInvariant, PTL DEF Spec
-----------------------------------------------------------------------------
(* The gateway *)

\* What is posted, and what the gateway has, leads to an address with its domain.
GatewayOwned ==
  /\ \A i \in posts : i.To[1] = vip[i.conn] /\ i.Domain = auth[i.conn].Domain
  /\ \A u \in upstream : \E c \in Conn : u.To[1] = vip[c] /\ u.Domain = auth[c].Domain

LEMMA GatewayNext ==
  ASSUME MaxCrashes = 0, IInv, GatewayOwned, [Next]_vars
  PROVE  GatewayOwned'
<1>0. /\ TypeOK /\ Stages
      /\ \A i \in posts : i.conn \in Conn /\ i.To[1] \in Address
      /\ \A u \in upstream : u.To[1] \in Address
  BY DEF IInv, TypeOK, ProxyTypeOK, Item, Meta
<1>1. CASE UNCHANGED vars
  BY <1>1 DEF GatewayOwned
<1>2. CASE Background
  <2>1. UNCHANGED <<vip, auth>>
    BY <1>2 DEF Background
  <2>2. ASSUME UNCHANGED <<posts, upstream>> PROVE GatewayOwned'
    BY <2>1, <2>2 DEF GatewayOwned
  <2>3. ASSUME NEW i \in posts, PostArrives(i) PROVE GatewayOwned'
    <3> DEFINE u == [Domain |-> i.Domain, Protocol |-> i.Protocol, To |-> i.To]
    <3>1. posts' \subseteq posts /\ upstream' \subseteq upstream \cup {u}
      BY <2>3 DEF PostArrives, Forget
    <3>2. u.To[1] = vip[i.conn] /\ u.Domain = auth[i.conn].Domain
      BY DEF GatewayOwned
    <3> HIDE DEF u
    <3> QED
      BY <1>0, <2>1, <3>1, <3>2 DEF GatewayOwned
  <2>4. ASSUME posts' \subseteq posts, upstream' \subseteq upstream PROVE GatewayOwned'
    BY <2>1, <2>4 DEF GatewayOwned
  <2>5. CASE Goroutines
    BY <2>2, <2>5 DEF Goroutines, RecyclerSelects, RecyclerCloses, LoopEndsOnClose, LoopFails,
                      LoopEnds
  <2>6. CASE Gateway
    BY <2>3, <2>4, <2>6 DEF Gateway, PostLost, DeleteArrives, Forget
  <2> QED
    BY <1>2, <2>5, <2>6 DEF Background
<1>3. ~Crash
  BY <1>0 DEF Crash, TypeOK
<1>4. ASSUME NEW c \in Conn, AddForward(c) PROVE GatewayOwned'
  <2>1. PICK p \in Head(rest[c]).Ports : AddProxy(NewItem(c, p))
    BY <1>4 DEF AddForward
  <2>2. /\ upstream' = upstream /\ posts' \subseteq posts \cup {NewItem(c, p)}
        /\ vip' = vip /\ auth' = auth
    BY <1>4, <2>1 DEF AddForward, AddProxy, RunProxy, RunListener, RunResty, RunDummy
  <2>3. /\ NewItem(c, p).conn = c /\ NewItem(c, p).To[1] = vip[c]
        /\ NewItem(c, p).Domain = auth[c].Domain
    BY DEF NewItem
  <2> QED
    BY <2>2, <2>3 DEF GatewayOwned
<1>5. ASSUME NEW c \in Conn, ReadAuth(c) \/ SelectVip(c) PROVE GatewayOwned'
  <2>1. posts' = posts /\ upstream' = upstream /\ vip[c] = NoVip
    BY <1>0, <1>5 DEF ReadAuth, SelectVip, Goto, Stages
  <2>2. \A d \in Conn : d # c => vip'[d] = vip[d] /\ auth'[d] = auth[d]
    BY <1>0, <1>5 DEF ReadAuth, SelectVip, TypeOK, ConnTypeOK
  <2> QED
    BY <1>0, <2>1, <2>2, ServerAssumption DEF GatewayOwned
<1>6. ASSUME NEW c \in Conn, Step(c), ~AddForward(c), ~ReadAuth(c), ~SelectVip(c)
      PROVE  GatewayOwned'
  <2>1. UNCHANGED <<vip, auth>> /\ posts' = posts /\ upstream' \subseteq upstream
    BY <1>6 DEF Step, Progress, Accept, AuthFails, SelectVipFails,
       ApplyDomain, ApplyDomainFails, AddForwardFails, AddProxyFails, NextForward, AllAdded,
       Reply, ReplyFails, OpenSession, SessionEnds, EndSession, Unwind, Unwound, LinkDies,
       Multiplexer, BufferFills, BufferDrains, KeepaliveExpires, DelProxy, StopProxy,
       StopListener, StopResty, StopDummy, Forget
  <2> QED
    BY <2>1 DEF GatewayOwned
<1> QED
  BY <1>1, <1>2, <1>3, <1>4, <1>5, <1>6 DEF Next

\* Until the server crashes, an upstream of a domain leads to no client of
\* another, however late the gateway handles its requests, and if it loses them
\* (restyproxy.go:49-130).
THEOREM UpstreamsIsolated ==
  ASSUME MaxCrashes = 0
  PROVE  Spec => []UpstreamIsolation
<1>1. Init => GatewayOwned
  BY DEF Init, P_Init, GatewayOwned
<1>2. IInv /\ GatewayOwned /\ [Next]_vars => GatewayOwned'
  BY GatewayNext
<1>3. ASSUME IInv, GatewayOwned PROVE UpstreamIsolation
  <2> SUFFICES ASSUME NEW u \in upstream, NEW s \in sessions, s.vip = u.To[1]
               PROVE  auth[s.conn].Domain = u.Domain
    BY DEF UpstreamIsolation
  <2>1. PICK c \in Conn : u.To[1] = vip[c] /\ u.Domain = auth[c].Domain
    BY <1>3 DEF GatewayOwned
  <2>2. PICK d \in Conn : s = [vip |-> vip[d], conn |-> d]
    BY <1>3 DEF IInv, SessionsExact
  <2>3. u.To[1] \in Address
    BY <1>3 DEF IInv, TypeOK, ProxyTypeOK
  <2>4. c = d
    BY <1>3, <2>1, <2>2, <2>3, ServerAssumption DEF IInv, VipExclusive
  <2> QED
    BY <2>1, <2>2, <2>4
<1> QED
  BY <1>1, <1>2, <1>3, ServerInvariant, PTL DEF Spec
-----------------------------------------------------------------------------
(* RouteLease: Server implements it, and a client that is served has all it *)
(* asked for.                                                              *)

\* The proxies of forwards: a protocol, and a public port with a local one.
Proxies(forwards) ==
  {q \in Protocol \X (Port \X LocalPort) :
     \E n \in DOMAIN forwards : q[1] = forwards[n].Protocol /\ q[2] \in forwards[n].Ports}

ItemFor(c, q) ==
  [conn |-> c, Protocol |-> q[1], From |-> q[2][1], To |-> <<vip[c], q[2][2]>>,
   Domain |-> auth[c].Domain]

\* Before its forwards are read a client has asked for nothing.  From then on
\* what it asked for is registered or left to add, and nothing else is left; the
\* reply is sent when nothing is left.
Accounted(c) ==
  /\ pc[c] \in {"idle", "auth"} => auth[c] = ZeroAuth
  /\ pc[c] \in {"select", "resolve"} => rest[c] = auth[c].Forward
  /\ pc[c] \in {"add", "reply", "mux", "serve"} =>
       /\ Proxies(rest[c]) \subseteq Proxies(auth[c].Forward)
       /\ \A q \in Proxies(auth[c].Forward) : ItemFor(c, q) \in routes \/ q \in Proxies(rest[c])
  /\ pc[c] \in {"reply", "mux", "serve"} => rest[c] = <<>>

LInv == IInv /\ \A c \in Conn : Accounted(c)
-----------------------------------------------------------------------------
(* What the two loops over forwards and ports have left.                   *)

\* A port that is taken.
LEMMA ProxyTaken ==
  ASSUME NEW s \in Seq(Forwards), s # <<>>, NEW p \in Head(s).Ports
  PROVE  /\ Proxies(Without(s, p)) \subseteq Proxies(s)
         /\ Proxies(s) \subseteq Proxies(Without(s, p)) \cup {<<Head(s).Protocol, p>>}
         /\ <<Head(s).Protocol, p>> \in Proxies(s)
<1> DEFINE f == [Head(s) EXCEPT !.Ports = @ \ {p}]
           r == Without(s, p)
<1>1. /\ Head(s) = s[1] /\ s[1] \in Forwards /\ Tail(s) \in Seq(Forwards)
      /\ Len(s) \in Nat \ {0} /\ DOMAIN s = 1 .. Len(s)
      /\ Len(Tail(s)) = Len(s) - 1
      /\ \A n \in 1 .. Len(s) - 1 : Tail(s)[n] = s[n + 1]
  BY HeadTailProperties, LenProperties, EmptySeq
<1>2. f \in Forwards /\ f.Protocol = s[1].Protocol /\ f.Ports = s[1].Ports \ {p}
  BY <1>1 DEF Forwards
<1>3. r = <<f>> \o Tail(s)
  BY DEF Without
<1> HIDE DEF f, r
<1>4. /\ DOMAIN r = 1 .. Len(s) /\ r[1] = f
      /\ \A n \in 1 .. Len(s) : n # 1 => r[n] = s[n]
  <2>1. /\ Len(r) = 1 + (Len(s) - 1) /\ r \in Seq(Forwards)
        /\ \A n \in 1 .. Len(r) : r[n] = IF n <= 1 THEN <<f>>[n] ELSE Tail(s)[n - 1]
    BY <1>1, <1>2, <1>3, ConcatProperties
  <2>2. Len(r) = Len(s) /\ DOMAIN r = 1 .. Len(r)
    BY <1>1, <2>1, LenProperties
  <2>3. r[1] = f
    BY <1>1, <2>1, <2>2
  <2>4. ASSUME NEW n \in 1 .. Len(s), n # 1 PROVE r[n] = s[n]
    <3>1. n - 1 \in 1 .. Len(s) - 1 /\ (n - 1) + 1 = n /\ ~(n <= 1)
      BY <1>1, <2>4
    <3> QED
      BY <1>1, <2>1, <2>2, <3>1
  <2> QED
    BY <2>2, <2>3, <2>4
<1>5. 1 \in 1 .. Len(s)
  BY <1>1
<1>6. p \in s[1].Ports /\ <<s[1].Protocol, p>> \in Protocol \X (Port \X LocalPort)
  BY <1>1 DEF Forwards
<1>7. <<Head(s).Protocol, p>> \in Proxies(s)
  BY <1>1, <1>5, <1>6 DEF Proxies
<1>8. ASSUME NEW q \in Proxies(r) PROVE q \in Proxies(s)
  <2>1. PICK n \in 1 .. Len(s) : q[1] = r[n].Protocol /\ q[2] \in r[n].Ports
    BY <1>4 DEF Proxies
  <2>2. q[1] = s[n].Protocol /\ q[2] \in s[n].Ports
    BY <1>2, <1>4, <2>1
  <2> QED
    BY <1>1, <2>2 DEF Proxies
<1>9. ASSUME NEW q \in Proxies(s), q # <<Head(s).Protocol, p>> PROVE q \in Proxies(r)
  <2>1. PICK n \in 1 .. Len(s) : q[1] = s[n].Protocol /\ q[2] \in s[n].Ports
    BY <1>1 DEF Proxies
  <2>2. CASE n # 1
    BY <1>4, <2>1, <2>2 DEF Proxies
  <2>3. CASE n = 1
    <3>1. q = <<q[1], q[2]>>
      BY DEF Proxies
    <3>2. q[2] # p
      BY <1>1, <1>9, <2>1, <2>3, <3>1
    <3>3. q[1] = r[1].Protocol /\ q[2] \in r[1].Ports
      BY <1>2, <1>4, <2>1, <2>3, <3>2
    <3> QED
      BY <1>4, <1>5, <3>3 DEF Proxies
  <2> QED
    BY <2>2, <2>3
<1> QED
  BY <1>7, <1>8, <1>9 DEF r

\* A forward that has no ports left.
LEMMA ForwardDone ==
  ASSUME NEW s \in Seq(Forwards), s # <<>>, Head(s).Ports = {}
  PROVE  Proxies(Tail(s)) = Proxies(s)
<1>1. /\ Head(s) = s[1] /\ Tail(s) \in Seq(Forwards)
      /\ Len(s) \in Nat \ {0} /\ DOMAIN s = 1 .. Len(s)
      /\ DOMAIN Tail(s) = 1 .. Len(s) - 1
      /\ \A n \in 1 .. Len(s) - 1 : Tail(s)[n] = s[n + 1]
  <2>1. Tail(s) \in Seq(Forwards) /\ Len(Tail(s)) = Len(s) - 1
    BY HeadTailProperties
  <2>2. DOMAIN Tail(s) = 1 .. Len(Tail(s))
    BY <2>1, LenProperties
  <2> QED
    BY <2>1, <2>2, HeadTailProperties, LenProperties, EmptySeq
<1>2. \A n \in 1 .. Len(s) - 1 : n + 1 \in 1 .. Len(s)
  BY <1>1
<1>3. \A n \in 1 .. Len(s) : n = 1 \/ (n - 1 \in 1 .. Len(s) - 1 /\ (n - 1) + 1 = n)
  BY <1>1
<1>4. ASSUME NEW q \in Proxies(Tail(s)) PROVE q \in Proxies(s)
  BY <1>1, <1>2 DEF Proxies
<1>5. ASSUME NEW q \in Proxies(s) PROVE q \in Proxies(Tail(s))
  <2>1. PICK n \in 1 .. Len(s) : q[1] = s[n].Protocol /\ q[2] \in s[n].Ports
    BY <1>1 DEF Proxies
  <2>2. n - 1 \in 1 .. Len(s) - 1 /\ Tail(s)[n - 1] = s[n]
    <3>1. n # 1
      BY <1>1, <2>1
    <3> QED
      BY <1>1, <1>3, <3>1
  <2> QED
    BY <1>1, <2>1, <2>2 DEF Proxies
<1> QED
  BY <1>4, <1>5
-----------------------------------------------------------------------------
(* Everything asked for is accounted for.                                  *)

\* A step of a connection leaves the others as they are, and their routes.
LEMMA Others ==
  ASSUME IInv, NEW c \in Conn, Step(c), NEW d \in Conn, d # c
  PROVE  /\ pc'[d] = pc[d] /\ auth'[d] = auth[d] /\ vip'[d] = vip[d] /\ rest'[d] = rest[d]
         /\ \A r \in routes : r.conn = d => r \in routes'
<1>1. TypeOK /\ RouteOwner
  BY DEF IInv
<1>2. pc'[d] = pc[d] /\ auth'[d] = auth[d] /\ vip'[d] = vip[d] /\ rest'[d] = rest[d]
  BY <1>1 DEF TypeOK, ConnTypeOK, Step, Progress, Accept, ReadAuth, AuthFails, SelectVip,
     SelectVipFails, ApplyDomain, ApplyDomainFails, AddForward, AddForwardFails,
     NextForward, AllAdded, Reply, ReplyFails, OpenSession, SessionEnds,
     EndSession, Unwind, Unwound, LinkDies, Multiplexer, BufferFills, BufferDrains,
     KeepaliveExpires, Goto, Closed
<1>3. CASE AddForward(c)
  BY <1>2, <1>3 DEF AddForward, AddProxy
<1>4. CASE Unwind(c)
  <2>1. routes' = {r \in routes : identify(r) # identify(defers[c][Len(defers[c])])}
    BY <1>4 DEF Unwind, DelProxy
  <2>2. /\ defers[c][Len(defers[c])] \in routes
        /\ defers[c][Len(defers[c])].conn = c
    <3>1. defers[c] \in Seq(Item) /\ defers[c] # <<>>
      BY <1>1, <1>4 DEF TypeOK, ConnTypeOK, Unwind
    <3>2. Len(defers[c]) \in DOMAIN defers[c]
      BY <3>1, Popped
    <3> QED
      BY <1>1, <3>2 DEF RouteOwner
  <2>3. ASSUME NEW r \in routes, r.conn = d PROVE r \in routes'
    BY <1>1, <2>1, <2>2, <2>3 DEF RouteOwner
  <2> QED
    BY <1>2, <2>3
<1>5. CASE ~AddForward(c) /\ ~Unwind(c)
  BY <1>2, <1>5, RoutesQuiet
<1> QED
  BY <1>3, <1>4, <1>5

\* What is accounted for stays so while a connection is left alone.
LEMMA StaysAccounted ==
  ASSUME NEW d, Accounted(d),
         pc'[d] = pc[d], auth'[d] = auth[d], vip'[d] = vip[d], rest'[d] = rest[d],
         \A r \in routes : r.conn = d => r \in routes'
  PROVE  Accounted(d)'
<1>1. \A q : ItemFor(d, q)' = ItemFor(d, q) /\ ItemFor(d, q).conn = d
  BY DEF ItemFor
<1> QED
  BY <1>1 DEF Accounted

\* Reading the request, and all steps that lead to an end.
LEMMA AccountedEasy ==
  ASSUME IInv, NEW c \in Conn, Accounted(c),
         \/ Accept(c) \/ ReadAuth(c) \/ AuthFails(c) \/ SelectVipFails(c)
         \/ ApplyDomainFails(c) \/ AddForwardFails(c) \/ ReplyFails(c)
         \/ SessionEnds(c) \/ EndSession(c) \/ Unwind(c) \/ Unwound(c)
  PROVE  Accounted(c)'
<1>1. pc \in [Conn -> {"idle", "auth", "select", "resolve", "add", "reply",
                       "mux", "serve", "delsess", "unwind", "closed"}]
      /\ auth \in [Conn -> AuthRequest] /\ rest \in [Conn -> Seq(Forwards)]
  BY DEF IInv, TypeOK, ConnTypeOK
<1>2. CASE Accept(c)
  <2>1. pc[c] = "idle" /\ pc'[c] = "auth" /\ auth' = auth
    BY <1>1, <1>2 DEF Accept, Goto
  <2> QED
    BY <2>1 DEF Accounted
<1>3. CASE ReadAuth(c)
  <2>1. PICK req \in Requests : \E d \in DomainOf(c, req.Domain) :
          /\ auth' = [auth EXCEPT ![c] = [req EXCEPT !.Domain = d]]
          /\ rest' = [rest EXCEPT ![c] = req.Forward]
    BY <1>3 DEF ReadAuth
  <2> PICK d \in DomainOf(c, req.Domain) :
          /\ auth' = [auth EXCEPT ![c] = [req EXCEPT !.Domain = d]]
          /\ rest' = [rest EXCEPT ![c] = req.Forward]
    BY <2>1
  <2>2. req \in AuthRequest
    BY ServerAssumption
  <2>3. [req EXCEPT !.Domain = d].Forward = req.Forward
    BY <2>2 DEF AuthRequest
  <2>4. auth'[c].Forward = req.Forward /\ rest'[c] = req.Forward
    BY <1>1, <2>3
  <2>5. pc'[c] = "select"
    BY <1>1, <1>3 DEF ReadAuth, Goto
  <2> QED
    BY <2>4, <2>5 DEF Accounted
<1>4. CASE ~Accept(c) /\ ~ReadAuth(c)
  <2>1. pc'[c] \in {"delsess", "unwind", "closed"}
    BY <1>1, <1>4 DEF AuthFails, SelectVipFails, ApplyDomainFails, AddForwardFails,
       ReplyFails, SessionEnds, EndSession, Unwind, Unwound, Goto, Closed
  <2> QED
    BY <2>1 DEF Accounted
<1> QED
  BY <1>2, <1>3, <1>4

\* The steps in between.
LEMMA AccountedOn ==
  ASSUME IInv, NEW c \in Conn, Accounted(c),
         \/ SelectVip(c) \/ ApplyDomain(c) \/ AllAdded(c) \/ Reply(c) \/ OpenSession(c)
         \/ LinkDies(c) \/ Multiplexer(c)
  PROVE  Accounted(c)'
<1>1. pc \in [Conn -> {"idle", "auth", "select", "resolve", "add", "reply",
                       "mux", "serve", "delsess", "unwind", "closed"}]
  BY DEF IInv, TypeOK, ConnTypeOK
<1>2. auth' = auth /\ rest' = rest /\ routes' = routes
  BY DEF SelectVip, ApplyDomain, AllAdded, Reply, OpenSession, LinkDies, Multiplexer,
     BufferFills, BufferDrains, KeepaliveExpires
<1>3. CASE SelectVip(c) \/ ApplyDomain(c)
  <2>1. pc[c] \in {"select", "resolve"} /\ pc'[c] \in {"resolve", "add"}
    BY <1>1, <1>3 DEF SelectVip, ApplyDomain, Goto
  <2>2. rest[c] = auth[c].Forward
    BY <2>1 DEF Accounted
  <2> QED
    BY <1>2, <2>1, <2>2 DEF Accounted
<1>4. CASE ~SelectVip(c) /\ ~ApplyDomain(c)
  <2>1. vip' = vip
    BY <1>4 DEF AllAdded, Reply, OpenSession, LinkDies, Multiplexer, BufferFills,
       BufferDrains, KeepaliveExpires
  <2>2. \A q : ItemFor(c, q)' = ItemFor(c, q)
    BY <1>2, <2>1 DEF ItemFor
  <2>3. \/ pc'[c] = pc[c]
        \/ /\ pc[c] \in {"add", "reply", "mux"} /\ pc'[c] \in {"reply", "mux", "serve"}
           /\ pc[c] = "add" => rest[c] = <<>>
    BY <1>1, <1>4 DEF AllAdded, Reply, OpenSession, LinkDies, Multiplexer, BufferFills,
       BufferDrains, KeepaliveExpires, Goto
  <2> QED
    BY <1>2, <2>2, <2>3 DEF Accounted
<1> QED
  BY <1>3, <1>4

\* The loops: a proxy is added, or a forward has no ports left.
LEMMA AccountedLoop ==
  ASSUME IInv, NEW c \in Conn, Accounted(c), AddForward(c) \/ NextForward(c)
  PROVE  Accounted(c)'
<1>1. /\ pc[c] = "add" /\ rest[c] # <<>> /\ rest \in [Conn -> Seq(Forwards)]
      /\ pc' = pc /\ auth' = auth /\ vip' = vip
  BY DEF IInv, TypeOK, ConnTypeOK, AddForward, NextForward
<1>2. \A q : ItemFor(c, q)' = ItemFor(c, q)
  BY <1>1 DEF ItemFor
<1>3. /\ Proxies(rest[c]) \subseteq Proxies(auth[c].Forward)
      /\ \A q \in Proxies(auth[c].Forward) : ItemFor(c, q) \in routes \/ q \in Proxies(rest[c])
  BY <1>1 DEF Accounted
<1>4. CASE AddForward(c)
  <2>1. PICK p \in Head(rest[c]).Ports :
          /\ AddProxy(NewItem(c, p)) /\ rest' = [rest EXCEPT ![c] = Without(@, p)]
    BY <1>4 DEF AddForward
  <2> DEFINE k == <<Head(rest[c]).Protocol, p>>
  <2>2. routes' = routes \cup {ItemFor(c, k)}
    BY <2>1 DEF AddProxy, NewItem, ItemFor
  <2> HIDE DEF k
  <2>3. rest'[c] = Without(rest[c], p)
    BY <1>1, <2>1
  <2>4. /\ Proxies(Without(rest[c], p)) \subseteq Proxies(rest[c])
        /\ Proxies(rest[c]) \subseteq Proxies(Without(rest[c], p)) \cup {k}
    BY <1>1, ProxyTaken DEF k
  <2> QED
    BY <1>1, <1>2, <1>3, <2>2, <2>3, <2>4 DEF Accounted
<1>5. CASE NextForward(c)
  <2>1. rest'[c] = Tail(rest[c]) /\ routes' = routes /\ Head(rest[c]).Ports = {}
    BY <1>1, <1>5 DEF NextForward
  <2>2. Proxies(rest'[c]) = Proxies(rest[c])
    BY <1>1, <2>1, ForwardDone
  <2> QED
    BY <1>1, <1>2, <1>3, <2>1, <2>2 DEF Accounted
<1> QED
  BY <1>4, <1>5
-----------------------------------------------------------------------------
(* The invariant and what follows from it.                                 *)

\* Every step keeps the account of every connection.
LEMMA AccountedNext ==
  ASSUME LInv, [Next]_vars, NEW d \in Conn
  PROVE  Accounted(d)'
<1>1. IInv /\ Accounted(d)
  BY DEF LInv
<1>2. ASSUME UNCHANGED <<routes, serverVars>> PROVE Accounted(d)'
  BY <1>1, <1>2, StaysAccounted
<1>3. ASSUME NEW c \in Conn, Step(c) PROVE Accounted(d)'
  <2>1. CASE c # d
    BY <1>1, <1>3, <2>1, Others, StaysAccounted
  <2>2. CASE c = d
    BY <1>1, <1>3, <2>2, AccountedEasy, AccountedOn, AccountedLoop DEF Step, Progress
  <2> QED
    BY <2>1, <2>2
<1>4. CASE Background
  <2>1. UNCHANGED <<routes, serverVars>>
    BY <1>4 DEF Background, Goroutines, Gateway, RecyclerSelects, RecyclerCloses,
                LoopEndsOnClose, LoopFails, LoopEnds, PostArrives, PostLost,
                DeleteArrives
  <2> QED
    BY <1>2, <2>1
<1>5. CASE Crash
  <2>1. /\ pc'[d] = IF pc[d] = "idle" THEN pc[d] ELSE "closed"
        /\ auth'[d] = IF pc[d] = "idle" THEN auth[d] ELSE ZeroAuth
    BY <1>5 DEF Crash, Forgotten
  <2> QED
    BY <1>1, <2>1 DEF Accounted
<1> QED
  BY <1>2, <1>3, <1>4, <1>5 DEF Next

\* At every time each proxy a client asked for is registered or left to add
\* (server.go:96-150, the loops over its forwards).
THEOREM EverythingAccounted == Spec => []LInv
<1>1. Init => \A c \in Conn : Accounted(c)
  BY DEF Init, Accounted
<1>2. IInv /\ (\A c \in Conn : Accounted(c)) /\ [Next]_vars
        => (\A c \in Conn : Accounted(c))'
  BY AccountedNext DEF LInv
<1>3. Spec => [](\A c \in Conn : Accounted(c))
  BY <1>1, <1>2, ServerInvariant, PTL DEF Spec
<1>4. IInv /\ (\A c \in Conn : Accounted(c)) => LInv
  BY DEF LInv
<1> QED
  BY <1>3, <1>4, ServerInvariant, PTL

\* What LInv says of a client that is sent the reply.
LEMMA AllRegistered ==
  ASSUME LInv, NEW c \in Conn, pc[c] \in {"reply", "mux", "serve"},
         NEW q \in Proxies(auth[c].Forward)
  PROVE  ItemFor(c, q) \in routes
<1>1. rest[c] = <<>>
  BY DEF LInv, Accounted
<1>2. q \notin Proxies(rest[c])
  BY <1>1 DEF Proxies
<1> QED
  BY <1>2 DEF LInv, Accounted

\* A client that is sent the reply, or is served, has every proxy it asked for
\* (server.go:118-175): onConn never goes on with a part of them.
THEOREM AllOrNothing == Spec => []ServedFully
<1>1. ASSUME LInv PROVE ServedFully
  <2> SUFFICES ASSUME NEW c \in Conn, pc[c] \in {"reply", "mux", "serve"},
                      NEW n \in DOMAIN auth[c].Forward, NEW p \in auth[c].Forward[n].Ports
               PROVE  [conn |-> c, Protocol |-> auth[c].Forward[n].Protocol, From |-> p[1],
                       To |-> <<vip[c], p[2]>>, Domain |-> auth[c].Domain] \in routes
    BY DEF ServedFully
  <2>1. auth[c].Forward[n] \in Forwards
    <3>1. auth[c].Forward \in Seq(Forwards)
      BY <1>1 DEF LInv, IInv, TypeOK, ConnTypeOK, AuthRequest
    <3> QED
      BY <3>1
  <2> DEFINE q == <<auth[c].Forward[n].Protocol, p>>
  <2>2. q \in Proxies(auth[c].Forward)
    BY <2>1 DEF Proxies, Forwards
  <2>3. ItemFor(c, q) \in routes
    BY <1>1, <2>2, AllRegistered
  <2> QED
    BY <2>3 DEF ItemFor
<1> QED
  BY <1>1, EverythingAccounted, PTL
-----------------------------------------------------------------------------
(* The refinement mapping.                                                 *)

Phase(stage) ==
  CASE stage \in {"idle", "auth"} -> "idle"
    [] stage \in {"select", "resolve", "add", "reply", "mux"} -> "joining"
    [] stage = "serve" -> "serving"
    [] stage \in {"delsess", "unwind"} -> "leaving"
    [] stage = "closed" -> "gone"

Wanted(request) ==
  UNION {{<<f.Protocol, p[1], request.Domain>> : p \in f.Ports} :
           f \in {request.Forward[n] : n \in DOMAIN request.Forward}}

\* The mapping by connection, in a state and in the next one.
LEMMA Mapping ==
  /\ phaseOf = [c \in Conn |-> Phase(pc[c])] /\ phaseOf' = [c \in Conn |-> Phase(pc'[c])]
  /\ wantedOf = [c \in Conn |-> Wanted(auth[c])] /\ wantedOf' = [c \in Conn |-> Wanted(auth'[c])]
BY DEF phaseOf, wantedOf, Phase, Wanted

LEMMA Phases ==
  /\ \A s \in {"idle", "auth"} : Phase(s) = "idle"
  /\ \A s \in {"select", "resolve", "add", "reply", "mux"} : Phase(s) = "joining"
  /\ Phase("serve") = "serving"
  /\ \A s \in {"delsess", "unwind"} : Phase(s) = "leaving"
  /\ Phase("closed") = "gone"
BY DEF Phase

\* A connection's goroutine goes on: so does its client.
LEMMA Moves ==
  ASSUME IInv, NEW c \in Conn, NEW from, NEW to, Goto(c, from, to)
  PROVE  /\ phaseOf[c] = Phase(from)
         /\ phaseOf' = [phaseOf EXCEPT ![c] = Phase(to)]
<1>1. pc[c] = from /\ pc' = [pc EXCEPT ![c] = to] /\ DOMAIN pc = Conn
  BY DEF IInv, TypeOK, ConnTypeOK, Goto
<1>2. \A d \in Conn : Phase(pc'[d]) = IF d = c THEN Phase(to) ELSE Phase(pc[d])
  BY <1>1
<1> QED
  BY <1>1, <1>2, Mapping

\* What a client wants, in terms of its proxies.
LEMMA WantedProxies ==
  ASSUME NEW a \in AuthRequest, NEW k
  PROVE  k \in Wanted(a) <=> \E q \in Proxies(a.Forward) : k = <<q[1], q[2][1], a.Domain>>
<1>1. a.Forward \in Seq(Forwards)
  BY DEF AuthRequest
<1>2. \A n \in DOMAIN a.Forward : a.Forward[n] \in Forwards
  BY <1>1
<1>3. ASSUME NEW q \in Proxies(a.Forward), k = <<q[1], q[2][1], a.Domain>> PROVE k \in Wanted(a)
  <2>1. PICK n \in DOMAIN a.Forward : q[1] = a.Forward[n].Protocol /\ q[2] \in a.Forward[n].Ports
    BY DEF Proxies
  <2> QED
    BY <1>3, <2>1 DEF Wanted
<1>4. ASSUME k \in Wanted(a) PROVE \E q \in Proxies(a.Forward) : k = <<q[1], q[2][1], a.Domain>>
  <2>1. PICK n \in DOMAIN a.Forward : \E p \in a.Forward[n].Ports :
          k = <<a.Forward[n].Protocol, p[1], a.Domain>>
    BY <1>4 DEF Wanted
  <2>2. PICK p \in a.Forward[n].Ports : k = <<a.Forward[n].Protocol, p[1], a.Domain>>
    BY <2>1
  <2>3. <<a.Forward[n].Protocol, p>> \in Proxies(a.Forward)
    BY <1>2 DEF Proxies, Forwards
  <2> QED
    BY <2>2, <2>3
<1> QED
  BY <1>3, <1>4

\* Routes and leases.
LEMMA Leases ==
  ASSUME IInv, NEW c \in Conn, NEW k
  PROVE  <<c, k>> \in leasesOf <=> \E r \in routes : r.conn = c /\ identify(r) = k
BY DEF leasesOf

\* Whoever has no deferred calls holds no leases.
LEMMA HoldsNothing ==
  ASSUME IInv, NEW c \in Conn, defers[c] = <<>>
  PROVE  RL!Held(c) = {}
<1>1. \A r \in routes : r.conn # c
  BY DEF IInv, RouteOwner
<1> QED
  BY <1>1, Leases DEF RL!Held
-----------------------------------------------------------------------------
(* The refinement, step by step.                                           *)

\* The steps in which a client neither comes nor goes and no route changes hands.
LEMMA Stutters ==
  ASSUME LInv, NEW c \in Conn,
         \/ Accept(c) \/ SelectVip(c) \/ ApplyDomain(c) \/ NextForward(c) \/ AllAdded(c)
         \/ Reply(c) \/ EndSession(c) \/ LinkDies(c) \/ Multiplexer(c)
  PROVE  UNCHANGED <<phaseOf, wantedOf, leasesOf>>
<1>1. auth' = auth /\ routes' = routes
  BY DEF Accept, SelectVip, ApplyDomain, NextForward, AllAdded, Reply, EndSession,
         LinkDies, Multiplexer, BufferFills, BufferDrains, KeepaliveExpires
<1>2. wantedOf' = wantedOf /\ leasesOf' = leasesOf
  BY <1>1, Mapping DEF leasesOf
<1>3. \A d \in Conn : Phase(pc'[d]) = Phase(pc[d])
  <2>1. pc \in [Conn -> {"idle", "auth", "select", "resolve", "add", "reply",
                         "mux", "serve", "delsess", "unwind", "closed"}]
    BY DEF LInv, IInv, TypeOK, ConnTypeOK
  <2>2. \A d \in Conn :
          \/ pc'[d] = pc[d]
          \/ pc[d] = "idle" /\ pc'[d] = "auth"
          \/ {pc[d], pc'[d]} \subseteq {"select", "resolve", "add", "reply", "mux"}
          \/ pc[d] = "delsess" /\ pc'[d] = "unwind"
    BY <2>1 DEF Accept, SelectVip, ApplyDomain, NextForward, AllAdded, Reply, EndSession,
                LinkDies, Multiplexer, BufferFills, BufferDrains, KeepaliveExpires, Goto
  <2> QED
    BY <2>2, Phases
<1>4. phaseOf' = phaseOf
  BY <1>3, Mapping
<1> QED
  BY <1>2, <1>4

\* A client comes with its request.
LEMMA Joins ==
  ASSUME LInv, LInv', NEW c \in Conn, ReadAuth(c)
  PROVE  RL!Join(c)
<1>1. phaseOf[c] = "idle" /\ phaseOf' = [phaseOf EXCEPT ![c] = "joining"]
  BY Moves, Phases DEF LInv, ReadAuth
<1>2. leasesOf' = leasesOf
  BY DEF ReadAuth, leasesOf
<1>3. auth'[c] \in AuthRequest /\ auth'[c].Domain \in DomainName
  <2>1. pc'[c] = "select"
    BY DEF LInv, IInv, TypeOK, ConnTypeOK, ReadAuth, Goto
  <2> QED
    BY <2>1 DEF LInv, IInv, TypeOK, ConnTypeOK, Stages
<1>4. wantedOf'[c] \subseteq Protocol \X Port \X DomainName
  <2>1. wantedOf'[c] = Wanted(auth'[c])
    BY Mapping
  <2>2. ASSUME NEW k \in Wanted(auth'[c]) PROVE k \in Protocol \X Port \X DomainName
    <3>1. PICK q \in Proxies(auth'[c].Forward) : k = <<q[1], q[2][1], auth'[c].Domain>>
      BY <1>3, WantedProxies
    <3> QED
      BY <1>3, <3>1 DEF Proxies
  <2> QED
    BY <2>1, <2>2
<1>5. wantedOf' = [wantedOf EXCEPT ![c] = wantedOf'[c]]
  <2>1. \A d \in Conn : d # c => auth'[d] = auth[d]
    BY DEF LInv, IInv, TypeOK, ConnTypeOK, ReadAuth
  <2> QED
    BY <2>1, Mapping
<1> QED
  BY <1>1, <1>2, <1>4, <1>5 DEF RL!Join, RL!Move

\* A connection ends that holds nothing.
LEMMA Departs ==
  ASSUME LInv, NEW c \in Conn,
         \/ AuthFails(c) \/ SelectVipFails(c) \/ ApplyDomainFails(c) \/ Unwound(c)
  PROVE  RL!Depart(c)
<1>1. PICK from \in {"auth", "select", "resolve", "unwind"} : Goto(c, from, "closed")
  BY DEF AuthFails, SelectVipFails, ApplyDomainFails, Unwound, Closed
<1>2. phaseOf[c] = Phase(from) /\ phaseOf' = [phaseOf EXCEPT ![c] = Phase("closed")]
  BY <1>1, Moves DEF LInv
<1>3. phaseOf[c] \in {"idle", "joining", "leaving"} /\ phaseOf' = [phaseOf EXCEPT ![c] = "gone"]
  BY <1>2, Phases
<1>4. auth' = auth /\ routes' = routes
  BY DEF AuthFails, SelectVipFails, ApplyDomainFails, Unwound
<1>5. wantedOf' = wantedOf /\ leasesOf' = leasesOf
  BY <1>4, Mapping DEF leasesOf
<1>6. defers[c] = <<>>
  <2>1. pc[c] \in {"auth", "select", "resolve"} \/ defers[c] = <<>>
    BY DEF AuthFails, SelectVipFails, ApplyDomainFails, Unwound, Closed, Goto
  <2>2. pc[c] = "auth" => defers[c] = <<>>
    BY DEF LInv, IInv, Stages
  <2> QED
    BY <2>1, <2>2 DEF LInv, IInv, Stages
<1>7. RL!Held(c) = {}
  BY <1>6, HoldsNothing DEF LInv
<1> QED
  BY <1>3, <1>5, <1>7 DEF RL!Depart, RL!Move

\* A client is refused, or its session is over.
LEMMA Leaves ==
  ASSUME LInv, NEW c \in Conn, AddForwardFails(c) \/ ReplyFails(c) \/ SessionEnds(c)
  PROVE  RL!Leave(c)
<1>1. PICK from \in {"add", "reply", "serve"}, to \in {"unwind", "delsess"} : Goto(c, from, to)
  BY DEF AddForwardFails, ReplyFails, SessionEnds
<1>2. phaseOf[c] = Phase(from) /\ phaseOf' = [phaseOf EXCEPT ![c] = Phase(to)]
  BY <1>1, Moves DEF LInv
<1>3. phaseOf[c] \in {"joining", "serving"} /\ phaseOf' = [phaseOf EXCEPT ![c] = "leaving"]
  BY <1>2, Phases
<1>4. auth' = auth /\ routes' = routes
  BY DEF AddForwardFails, AddProxyFails, ReplyFails, SessionEnds
<1>5. wantedOf' = wantedOf /\ leasesOf' = leasesOf
  BY <1>4, Mapping DEF leasesOf
<1> QED
  BY <1>3, <1>5 DEF RL!Leave, RL!Move

\* A client is served: it holds all it wanted.
LEMMA ServesOn ==
  ASSUME LInv, NEW c \in Conn, OpenSession(c)
  PROVE  RL!Serve(c)
<1>1. phaseOf[c] = "joining" /\ phaseOf' = [phaseOf EXCEPT ![c] = "serving"]
  BY Moves, Phases DEF LInv, OpenSession
<1>2. auth' = auth /\ routes' = routes /\ pc[c] = "mux"
  BY DEF OpenSession, Goto
<1>3. wantedOf' = wantedOf /\ leasesOf' = leasesOf
  BY <1>2, Mapping DEF leasesOf
<1>4. wantedOf[c] \subseteq RL!Held(c)
  <2> SUFFICES ASSUME NEW k \in Wanted(auth[c]) PROVE k \in RL!Held(c)
    BY Mapping
  <2>1. auth[c] \in AuthRequest /\ auth[c].Domain \in DomainName
    BY <1>2 DEF LInv, IInv, TypeOK, ConnTypeOK, Stages
  <2>2. PICK q \in Proxies(auth[c].Forward) : k = <<q[1], q[2][1], auth[c].Domain>>
    BY <2>1, WantedProxies
  <2>3. ItemFor(c, q) \in routes
    BY <1>2, AllRegistered
  <2>4. ItemFor(c, q).conn = c /\ identify(ItemFor(c, q)) = k
    BY <2>2 DEF ItemFor, identify
  <2>5. k \in Protocol \X Port \X DomainName
    BY <2>1, <2>2 DEF Proxies
  <2>6. <<c, k>> \in leasesOf
    BY <2>3, <2>4 DEF leasesOf
  <2> QED
    BY <2>5, <2>6 DEF RL!Held
<1> QED
  BY <1>1, <1>3, <1>4 DEF RL!Serve, RL!Move

\* A route nobody has is leased to a client that asked for it.
LEMMA IsLeased ==
  ASSUME LInv, NEW c \in Conn, AddForward(c)
  PROVE  \E k \in Protocol \X Port \X DomainName : RL!Lease(c, k)
<1>1. PICK p \in Head(rest[c]).Ports : AddProxy(NewItem(c, p))
  BY DEF AddForward
<1>2. /\ pc[c] = "add" /\ pc' = pc /\ auth' = auth /\ rest[c] # <<>>
      /\ rest[c] \in Seq(Forwards)
      /\ auth[c] \in AuthRequest /\ auth[c].Domain \in DomainName
  BY DEF AddForward, LInv, IInv, TypeOK, ConnTypeOK, Stages
<1> DEFINE item == NewItem(c, p)
           q == <<Head(rest[c]).Protocol, p>>
           k == <<q[1], q[2][1], auth[c].Domain>>
<1>3. item.conn = c /\ identify(item) = k
  BY DEF NewItem, identify
<1>4. q \in Proxies(auth[c].Forward)
  <2>1. q \in Proxies(rest[c])
    BY <1>2, ProxyTaken
  <2> QED
    BY <1>2, <2>1 DEF LInv, Accounted
<1>5. k \in Wanted(auth[c]) /\ k \in Protocol \X Port \X DomainName
  BY <1>2, <1>4, WantedProxies DEF Proxies
<1>6. routes' = routes \cup {item} /\ \A r \in routes : identify(r) # k
  BY <1>1, <1>3 DEF AddProxy, InUse
<1> HIDE DEF item, q, k
<1>7. leasesOf' = leasesOf \cup {<<c, k>>}
  BY <1>3, <1>6 DEF leasesOf, identify
<1>8. \A other \in Conn : <<other, k>> \notin leasesOf
  BY <1>6 DEF leasesOf
<1>9. phaseOf[c] = "joining" /\ phaseOf' = phaseOf /\ wantedOf' = wantedOf
  BY <1>2, Mapping, Phases
<1>10. k \in wantedOf[c]
  BY <1>5, Mapping
<1> QED
  BY <1>5, <1>7, <1>8, <1>9, <1>10 DEF RL!Lease

\* A deferred DelProxy returns one route.
LEMMA IsReturned ==
  ASSUME LInv, NEW c \in Conn, Unwind(c)
  PROVE  \E k \in Protocol \X Port \X DomainName : RL!Return(c, k)
<1> DEFINE item == defers[c][Len(defers[c])]
           k == identify(item)
<1>1. pc[c] = "unwind" /\ pc' = pc /\ auth' = auth /\ defers[c] # <<>>
  BY DEF Unwind
<1>2. item \in routes /\ item.conn = c
  <2>1. defers[c] \in Seq(Item)
    BY DEF LInv, IInv, TypeOK, ConnTypeOK
  <2>2. Len(defers[c]) \in DOMAIN defers[c]
    BY <1>1, <2>1, Popped
  <2> QED
    BY <2>2 DEF LInv, IInv, RouteOwner
<1>3. routes' = {r \in routes : identify(r) # k}
  BY DEF Unwind, DelProxy
<1>4. k \in Protocol \X Port \X DomainName
  BY <1>2 DEF LInv, IInv, TypeOK, ProxyTypeOK, Item, Meta, identify
<1> HIDE DEF item
<1>5. \A r \in routes : identify(r) = k => r = item
  BY <1>2 DEF LInv, IInv, RouteOwner
<1> HIDE DEF k
<1>6. leasesOf' = {<<r.conn, identify(r)>> : r \in routes'}
  BY DEF leasesOf, identify
<1>7. leasesOf' = leasesOf \ {<<c, k>>}
  <2>1. \A r \in routes : identify(r) = k => r.conn = c
    BY <1>2, <1>5
  <2> QED
    BY <1>3, <1>6, <2>1 DEF leasesOf
<1>8. phaseOf[c] = "leaving" /\ phaseOf' = phaseOf /\ wantedOf' = wantedOf
  BY <1>1, Mapping, Phases
<1> QED
  BY <1>4, <1>7, <1>8 DEF RL!Return

\* The process dies: nobody who had come holds anything any more.
LEMMA Collapses ==
  ASSUME LInv, Crash
  PROVE  RL!Collapse
<1>1. \A c \in Conn :
        /\ pc'[c] = IF pc[c] = "idle" THEN pc[c] ELSE "closed"
        /\ auth'[c] = IF pc[c] = "idle" THEN auth[c] ELSE ZeroAuth
  BY DEF Crash, Forgotten
<1>2. \A c \in Conn : auth'[c] = ZeroAuth
  BY <1>1 DEF LInv, Accounted
<1>3. Wanted(ZeroAuth) = {}
  BY DEF Wanted, ZeroAuth
<1>4. wantedOf' = [c \in Conn |-> {}]
  BY <1>2, <1>3, Mapping
<1>5. leasesOf' = {}
  <2>1. routes' = {}
    BY DEF Crash
  <2> QED
    BY <2>1 DEF leasesOf
<1>6. \A c \in Conn : /\ Phase(pc'[c]) \in {"idle", "gone"}
                      /\ Phase(pc'[c]) = "idle" => Phase(pc[c]) = "idle"
  <2> TAKE c \in Conn
  <2>1. CASE pc[c] = "idle"
    BY <1>1, <2>1, Phases
  <2>2. CASE pc[c] # "idle"
    <3>1. Phase(pc'[c]) = "gone"
      BY <1>1, <2>2, Phases
    <3> QED
      BY <3>1
  <2> QED
    BY <2>1, <2>2
<1>7. /\ phaseOf' \in [Conn -> {"idle", "gone"}]
      /\ \A c \in Conn : phaseOf'[c] = "idle" => phaseOf[c] = "idle"
  BY <1>6, Mapping
<1> QED
  BY <1>4, <1>5, <1>7 DEF RL!Collapse

\* Every step of the server is one of the leasing specification, or none.
LEMMA LeaseStep ==
  ASSUME LInv, LInv', [Next]_vars
  PROVE  [RL!LeaseNext]_<<phaseOf, wantedOf, leasesOf>>
<1>1. ASSUME UNCHANGED <<routes, pc, auth>>
      PROVE  UNCHANGED <<phaseOf, wantedOf, leasesOf>>
  BY <1>1, Mapping DEF leasesOf
<1>2. CASE UNCHANGED vars
  BY <1>1, <1>2
<1>3. CASE Background
  <2>1. UNCHANGED <<routes, pc, auth>>
    BY <1>3 DEF Background, Goroutines, Gateway, RecyclerSelects, RecyclerCloses,
                LoopEndsOnClose, LoopFails, LoopEnds, PostArrives, PostLost,
                DeleteArrives
  <2> QED
    BY <1>1, <2>1
<1>4. CASE Crash
  BY <1>4, Collapses DEF RL!LeaseNext
<1>5. ASSUME NEW c \in Conn, Step(c)
      PROVE  [RL!LeaseNext]_<<phaseOf, wantedOf, leasesOf>>
  <2>1. CASE AddForward(c) \/ Unwind(c)
    BY <2>1, IsLeased, IsReturned DEF RL!LeaseNext
  <2>2. CASE \/ ReadAuth(c) \/ OpenSession(c)
             \/ AuthFails(c) \/ SelectVipFails(c) \/ ApplyDomainFails(c) \/ Unwound(c)
             \/ AddForwardFails(c) \/ ReplyFails(c) \/ SessionEnds(c)
    <3>1. RL!Join(c) \/ RL!Serve(c) \/ RL!Depart(c) \/ RL!Leave(c)
      BY <2>2, Joins, ServesOn, Departs, Leaves
    <3> QED
      BY <3>1 DEF RL!LeaseNext
  <2>3. CASE \/ Accept(c) \/ SelectVip(c) \/ ApplyDomain(c) \/ NextForward(c) \/ AllAdded(c)
             \/ Reply(c) \/ EndSession(c) \/ LinkDies(c) \/ Multiplexer(c)
    BY <2>3, Stutters
  <2> QED
    BY <1>5, <2>1, <2>2, <2>3 DEF Step, Progress
<1> QED
  BY <1>2, <1>3, <1>4, <1>5 DEF Next

\* The server implements the leasing of routes: one client at a time has a
\* route, none is served without all it asked for, and none is gone before it
\* has returned what it held (server.go:55-175, plugin.go:71-130).
THEOREM ServerLeasesRoutes == Spec => LeasesRoutes
<1>1. Init => RL!LeaseInit
  <2> SUFFICES ASSUME Init PROVE RL!LeaseInit
    OBVIOUS
  <2>1. phaseOf = [c \in Conn |-> "idle"]
    BY Mapping, Phases DEF Init
  <2>2. Wanted(ZeroAuth) = {}
    BY DEF Wanted, ZeroAuth
  <2>3. wantedOf = [c \in Conn |-> {}]
    BY <2>2, Mapping DEF Init
  <2>4. leasesOf = {}
    BY DEF Init, P_Init, leasesOf
  <2> QED
    BY <2>1, <2>3, <2>4 DEF RL!LeaseInit
<1>2. LInv /\ LInv' /\ [Next]_vars => [RL!LeaseNext]_<<phaseOf, wantedOf, leasesOf>>
  BY LeaseStep
<1> QED
  BY <1>1, <1>2, EverythingAccounted, PTL DEF Spec, LeasesRoutes
-----------------------------------------------------------------------------
(* The client that connects again (Opennotr).                              *)

\* Whatever the client does, the server takes a step of its own or none.
LEMMA ClientStep ==
  ASSUME [O_Next]_O_vars
  PROVE  [Next]_vars
<1>1. CASE UNCHANGED O_vars
  BY <1>1 DEF O_vars
<1>2. CASE ClientRun \/ DialFails
  <2>1. CASE Dial
    BY <2>1 DEF Dial, Next, Step
  <2> QED
    BY <1>2, <2>1 DEF ClientRun, DialFails, WriteAuth, ReadReply, Fails
<1>3. ASSUME NEW c \in Conn, Serves(c) \/ LinkFails(c) PROVE [Next]_vars
  BY <1>3 DEF Serves, LinkFails, Next, Step, Multiplexer
<1>4. CASE Listeners
  BY <1>4 DEF Listeners, Selects, Closes, LoopsEnd, Next, Background, Goroutines
<1>5. CASE Peers
  BY <1>5 DEF Peers, OwnBufferFills, OwnBufferDrains, Next, Step, Multiplexer
<1> QED
  BY <1>1, <1>2, <1>3, <1>4, <1>5 DEF O_Next

\* The server of a client that connects again (client.go:45-106) takes no step the
\* server does not take alone: what is proved of it holds here too.
THEOREM ClientAndServer == O_Spec => Spec
<1>1. O_Init => Init
  BY DEF O_Init
<1>2. [O_Next]_O_vars => [Next]_vars
  BY ClientStep
<1> QED
  BY <1>1, <1>2, PTL DEF O_Spec, Spec

\* The connections are used one after the other, and none but the last is alive.
OneAlive == \A c \in Conn : link[c] = "up" => c = cur /\ run # "dial"
UsedInOrder == \A c \in Conn : pc[c] = "idle" <=> c > cur

\* Where the client is, and where the server is with its connection: the server
\* reads nothing before it was written, and a client that has its reply is served
\* or was.
Over == {"mux", "serve", "delsess", "unwind", "closed"}
InStep ==
  /\ run \in {"dial", "write", "read", "accept", "full"}
  /\ cur \in Nat
  /\ run # "dial" => cur \in Conn
  /\ run = "write" => pc[cur] \in {"auth", "closed"}
  /\ run \in {"accept", "full"} => pc[cur] \in Over

C_Inv == OneAlive /\ UsedInOrder /\ InStep

\* No step of the server begins a connection, or brings one back.
LEMMA ServerGoesOn ==
  ASSUME TypeOK, NEW c \in Conn,
         ReadAuth(c) \/ AuthFails(c) \/ Progress(c) \/ Multiplexer(c) \/ LinkDies(c)
  PROVE  \A d \in Conn :
           /\ pc'[d] = "idle" <=> pc[d] = "idle"
           /\ link'[d] = "up" => link[d] = "up"
           /\ pc[d] \in Over => pc'[d] \in Over
           /\ pc[d] \in {"auth", "closed"} /\ ~(d = c /\ ReadAuth(c)) => pc'[d] \in {"auth", "closed"}
<1>1. pc \in [Conn -> {"idle", "auth", "select", "resolve", "add", "reply",
                       "mux", "serve", "delsess", "unwind", "closed"}]
      /\ link \in [Conn -> {"none", "up", "down"}]
  BY DEF TypeOK, ConnTypeOK
<1>2. UNCHANGED pc \/ \E from, to : Goto(c, from, to) /\
          \/ from = "auth" /\ to = "closed"
          \/ from = "auth" /\ ReadAuth(c) /\ to = "select"
          \/ from \in {"select", "resolve", "add", "reply"} /\ to # "idle"
          \/ from \in Over \ {"closed"} /\ to \in Over
  <2>1. CASE ReadAuth(c) \/ AuthFails(c)
    BY <2>1 DEF ReadAuth, AuthFails, Closed
  <2>2. CASE Multiplexer(c) \/ LinkDies(c)
    BY <2>2 DEF Multiplexer, BufferFills, BufferDrains, KeepaliveExpires, LinkDies
  <2>3. CASE SelectVip(c)
    BY <2>3 DEF SelectVip
  <2>4. CASE SelectVipFails(c) \/ AddForwardFails(c) \/ AllAdded(c) \/ Reply(c) \/ ReplyFails(c)
    BY <2>4 DEF SelectVipFails, AddForwardFails, AllAdded, Reply, ReplyFails, Closed, Over
  <2>5. CASE AddForward(c) \/ NextForward(c) \/ Unwind(c)
    BY <2>5 DEF AddForward, NextForward, Unwind
  <2>6. CASE OpenSession(c) \/ SessionEnds(c) \/ EndSession(c) \/ Unwound(c)
    BY <2>6 DEF OpenSession, SessionEnds, EndSession, Unwound, Closed, Over
  <2> QED
    BY <2>1, <2>2, <2>3, <2>4, <2>5, <2>6 DEF Progress
<1>3. UNCHANGED link \/ link' = [link EXCEPT ![c] = "down"]
  BY DEF ReadAuth, AuthFails, Multiplexer, BufferFills, BufferDrains, KeepaliveExpires,
     LinkDies, Progress, SelectVip, SelectVipFails,
         AddForward, AddForwardFails, NextForward, AllAdded, Reply, ReplyFails, OpenSession,
         SessionEnds, EndSession, Unwind, Unwound, Closed
<1>4. \A d \in Conn : link'[d] = "up" => link[d] = "up"
  BY <1>1, <1>3
<1>5. CASE UNCHANGED pc
  BY <1>4, <1>5
<1>6. ASSUME NEW from, NEW to, Goto(c, from, to),
             \/ from = "auth" /\ to = "closed"
             \/ from = "auth" /\ ReadAuth(c) /\ to = "select"
             \/ from \in {"select", "resolve", "add", "reply"} /\ to # "idle"
             \/ from \in Over \ {"closed"} /\ to \in Over
      PROVE  \A d \in Conn :
               /\ pc'[d] = "idle" <=> pc[d] = "idle"
               /\ pc[d] \in Over => pc'[d] \in Over
               /\ pc[d] \in {"auth", "closed"} /\ ~(d = c /\ ReadAuth(c))
                     => pc'[d] \in {"auth", "closed"}
  <2>1. pc[c] = from /\ \A d \in Conn : pc'[d] = IF d = c THEN to ELSE pc[d]
    BY <1>1, <1>6 DEF Goto
  <2> QED
    BY <1>6, <2>1 DEF Over
<1> QED
  BY <1>2, <1>4, <1>5, <1>6

LEMMA ClientNext ==
  ASSUME TypeOK, C_Inv, [O_Next]_O_vars
  PROVE  C_Inv'
<1>1. ASSUME UNCHANGED <<pc, link, run, cur>> PROVE C_Inv'
  BY <1>1 DEF C_Inv, OneAlive, UsedInOrder, InStep
<1>2. CASE Dial
  <2>1. PICK N \in Nat : Conn = 1..N
    BY OpennotrAssumption, FS_CardinalityType
  <2>2. /\ run = "dial" /\ cur + 1 \in Conn /\ cur' = cur + 1 /\ run' = "write"
        /\ pc' = [pc EXCEPT ![cur + 1] = "auth"]
        /\ link' = [link EXCEPT ![cur + 1] = "up"]
    BY <1>2 DEF Dial, Accept, Goto
  <2>3. \A d \in Conn : /\ pc'[d] = IF d = cur + 1 THEN "auth" ELSE pc[d]
                        /\ link'[d] = IF d = cur + 1 THEN "up" ELSE link[d]
    BY <2>2 DEF TypeOK, ConnTypeOK
  <2>4. OneAlive'
    BY <2>2, <2>3 DEF C_Inv, OneAlive
  <2>5. UsedInOrder'
    <3>1. cur \in Nat
      BY DEF C_Inv, InStep
    <3>2. \A d \in Conn : d > cur + 1 <=> d > cur /\ d # cur + 1
      BY <2>1, <3>1
    <3> QED
      BY <2>2, <2>3, <3>2 DEF C_Inv, UsedInOrder
  <2>6. InStep'
    BY <2>2, <2>3 DEF C_Inv, InStep
  <2> QED
    BY <2>4, <2>5, <2>6 DEF C_Inv
<1>3. CASE WriteAuth \/ ReadReply \/ Fails \/ OwnBufferFills \/ OwnBufferDrains
  <2>1. UNCHANGED <<pc, link, cur>>
    BY <1>3 DEF WriteAuth, ReadReply, Fails, OwnBufferFills, OwnBufferDrains
  <2>2. OneAlive' /\ UsedInOrder'
    <3>1. \A c \in Conn : run = "dial" => link[c] # "up"
      BY DEF C_Inv, OneAlive
    <3>2. CASE WriteAuth \/ ReadReply \/ OwnBufferFills \/ OwnBufferDrains
      BY <2>1, <3>2 DEF WriteAuth, ReadReply, OwnBufferFills, OwnBufferDrains, C_Inv, OneAlive,
         UsedInOrder
    <3>3. CASE Fails
      BY <2>1, <3>3 DEF Fails, C_Inv, OneAlive, UsedInOrder
    <3> QED
      BY <1>3, <3>2, <3>3
  <2>3. InStep'
    BY <1>3, <2>1 DEF WriteAuth, ReadReply, Fails, OwnBufferFills, OwnBufferDrains, C_Inv,
       InStep, Over
  <2> QED
    BY <2>2, <2>3 DEF C_Inv
<1>4. ASSUME NEW c \in Conn,
             Serves(c) \/ LinkFails(c) \/ (Multiplexer(c) /\ UNCHANGED clientVars)
      PROVE  C_Inv'
  <2>1. /\ ReadAuth(c) \/ AuthFails(c) \/ Progress(c) \/ Multiplexer(c) \/ LinkDies(c)
        /\ UNCHANGED <<run, cur>>
    BY <1>4 DEF Serves, LinkFails, Multiplexer, clientVars
  <2>2. \A d \in Conn : pc[d] = "auth" /\ ReadAuth(d) => ReadAuth(d)
    OBVIOUS
  <2>3. ReadAuth(c) => run # "write" \/ cur # c
    <3>1. SUFFICES ASSUME ReadAuth(c), run = "write", cur = c PROVE FALSE
      OBVIOUS
    <3>2. pc'[c] = "select"
      BY <3>1 DEF ReadAuth, Goto, TypeOK, ConnTypeOK
    <3>3. AuthFails(c) \/ Progress(c) \/ Multiplexer(c) \/ LinkDies(c)
      BY <1>4, <3>1 DEF Serves, LinkFails, Multiplexer
    <3>4. pc[c] = "auth"
      BY <3>1 DEF ReadAuth, Goto
    <3> QED
      BY <3>2, <3>3, <3>4 DEF AuthFails, Closed, Goto, Multiplexer, BufferFills,
         BufferDrains, KeepaliveExpires, LinkDies, Progress, SelectVip,
         SelectVipFails, AddForward, AddForwardFails, NextForward, AllAdded, Reply, ReplyFails,
         OpenSession, SessionEnds, EndSession, Unwind, Unwound, TypeOK, ConnTypeOK
  <2>4. \A d \in Conn :
           /\ pc'[d] = "idle" <=> pc[d] = "idle"
           /\ link'[d] = "up" => link[d] = "up"
           /\ pc[d] \in Over => pc'[d] \in Over
           /\ pc[d] \in {"auth", "closed"} /\ ~(d = c /\ ReadAuth(c)) => pc'[d] \in {"auth", "closed"}
    BY <2>1, ServerGoesOn
  <2>5. OneAlive' /\ UsedInOrder'
    BY <2>1, <2>4 DEF C_Inv, OneAlive, UsedInOrder
  <2>6. InStep'
    BY <2>1, <2>3, <2>4 DEF C_Inv, InStep
  <2> QED
    BY <2>5, <2>6 DEF C_Inv
<1>5. CASE DialFails \/ Listeners \/ UNCHANGED O_vars
  <2>1. UNCHANGED <<pc, link, run, cur>>
    BY <1>5 DEF DialFails, Listeners, Selects, Closes, LoopsEnd, O_vars, clientVars
  <2> QED
    BY <1>1, <2>1
<1>6. ASSUME Peers, ~OwnBufferFills, ~OwnBufferDrains PROVE C_Inv'
  <2>1. PICK c \in Conn : Multiplexer(c) /\ UNCHANGED clientVars
    BY <1>6 DEF Peers, Multiplexer
  <2> QED
    BY <1>4, <2>1
<1> QED
  <2>1. ClientRun => Dial \/ WriteAuth \/ ReadReply \/ Fails
    BY DEF ClientRun
  <2>2. ASSUME NEW c \in Conn, Serves(c) \/ LinkFails(c) PROVE C_Inv'
    BY <1>4, <2>2
  <2> QED
    BY <1>2, <1>3, <1>5, <1>6, <2>1, <2>2 DEF O_Next

\* Of a client's connections only the one it uses can be alive, they are used one
\* after the other, the server reads no request before it was written, and a
\* client that has its reply has everything it asked for, as long as the server
\* serves it (client.go:45-106, server.go:55-175).
THEOREM OneConnection ==
  O_Spec => [](/\ C_Inv
               /\ run \in {"accept", "full"} /\ pc[cur] \in {"mux", "serve"} =>
                    \A n \in DOMAIN auth[cur].Forward : \A p \in auth[cur].Forward[n].Ports :
                      \E r \in routes : r.conn = cur /\ r.From = p[1] /\ r.To = <<vip[cur], p[2]>>)
<1> DEFINE HasAll ==
      run \in {"accept", "full"} /\ pc[cur] \in {"mux", "serve"} =>
        \A n \in DOMAIN auth[cur].Forward : \A p \in auth[cur].Forward[n].Ports :
          \E r \in routes : r.conn = cur /\ r.From = p[1] /\ r.To = <<vip[cur], p[2]>>
<1>1. O_Init => C_Inv
  <2> SUFFICES ASSUME O_Init PROVE C_Inv
    OBVIOUS
  <2>1. PICK N \in Nat : Conn = 1..N
    BY OpennotrAssumption, FS_CardinalityType
  <2> QED
    BY <2>1 DEF O_Init, Init, C_Inv, OneAlive, UsedInOrder, InStep
<1>2. TypeOK /\ C_Inv /\ [O_Next]_O_vars => C_Inv'
  BY ClientNext
<1>3. C_Inv /\ ServedFully => HasAll
  BY DEF C_Inv, InStep, ServedFully
<1> QED
  BY <1>1, <1>2, <1>3, ClientAndServer, ServerType, AllOrNothing, PTL DEF O_Spec
-----------------------------------------------------------------------------
(* The messages on a stream (Framing).                                     *)

Channels == {"control", "tunnel", "answers"}
HL(ch) == IF ch = "control" THEN 4 ELSE 2
Message == [cmd : Octets, body : Seq(Octets)]

\* What an octet of a message is.
HeaderOctet(ch, m, i) ==
  IF i = HL(ch) - 1 THEN (Len(m.body) % Width) \div Base
  ELSE IF i = HL(ch) THEN Len(m.body) % Base
  ELSE IF i = 1 THEN 1 ELSE m.cmd
OctetOf(ch, m, i) == IF i <= HL(ch) THEN HeaderOctet(ch, m, i) ELSE m.body[i - HL(ch)]
Size(ch, m) == HL(ch) + Len(m.body)

\* The division of a length into two octets, and back.
LEMMA Division ==
  ASSUME NEW n \in Nat
  PROVE  /\ n % Base \in Octets
         /\ (n % Width) \div Base \in Octets
         /\ n < Width => ((n % Width) \div Base) * Base + (n % Base) = n
<1> DEFINE r == n % Width
<1>1. Base \in Nat /\ Base > 1 /\ Width = Base * Base /\ Octets = 0..(Base - 1)
  BY WireConstants DEF Width, Octets
<1>2. Width \in Nat /\ Width > 0
  BY <1>1
<1>3. r \in Nat /\ r < Width
  BY <1>2
<1>4. n % Base \in Nat /\ n % Base < Base
  BY <1>1
<1>5. r = (r \div Base) * Base + (r % Base) /\ r % Base >= 0 /\ r \div Base \in Int
  BY <1>1, <1>3
<1>6. r \div Base >= 0
  BY <1>1, <1>3
<1>7. r \div Base < Base
  <2> DEFINE q == r \div Base
  <2>1. q \in Int /\ q * Base <= r /\ r < Base * Base
    BY <1>1, <1>3, <1>5
  <2> HIDE DEF q
  <2>2. q >= Base => q * Base >= Base * Base
    BY <1>1, <2>1
  <2>3. q < Base
    BY <1>1, <1>3, <2>1, <2>2
  <2> QED
    BY <2>3 DEF q
<1>8. n < Width => r = n
  BY <1>2
<1> QED
  BY <1>1, <1>4, <1>5, <1>6, <1>7, <1>8

\* A concatenation, octet by octet.
LEMMA Concat ==
  ASSUME NEW T, NEW s \in Seq(T), NEW t \in Seq(T)
  PROVE  /\ s \o t \in Seq(T) /\ Len(s \o t) = Len(s) + Len(t)
         /\ \A i \in 1..(Len(s) + Len(t)) : (s \o t)[i] = IF i <= Len(s) THEN s[i] ELSE t[i - Len(s)]
  BY ConcatProperties

\* Two octets.
LEMMA Pair == ASSUME NEW a \in Octets, NEW b \in Octets PROVE <<a,
b>> \in Seq(Octets) /\ Len(<<a, b>>) = 2
  OBVIOUS

\* Four octets, two by two.
LEMMA Pairs ==
  ASSUME NEW a \in Octets, NEW b \in Octets, NEW c \in Octets, NEW d \in Octets
  PROVE  /\ <<a, b>> \o <<c, d>> \in Seq(Octets) /\ Len(<<a, b>> \o <<c, d>>) = 4
         /\ (<<a, b>> \o <<c, d>>)[1] = a /\ (<<a, b>> \o <<c, d>>)[2] = b
         /\ (<<a, b>> \o <<c, d>>)[3] = c /\ (<<a, b>> \o <<c, d>>)[4] = d
  OBVIOUS

\* An encoded message is its header and its body.
LEMMA Encoded ==
  ASSUME NEW m \in Message, channel \in Channels
  PROVE  /\ encode(m) \in Seq(Octets)
         /\ Len(encode(m)) = Size(channel, m)
         /\ \A i \in 1..Size(channel, m) : encode(m)[i] = OctetOf(channel, m, i)
<1> DEFINE n == Len(m.body)
           h == <<(n % Width) \div Base, n % Base>>
<1>1. m.body \in Seq(Octets) /\ m.cmd \in Octets /\ n \in Nat
  BY DEF Message
<1>2. h \in Seq(Octets) /\ 1 \in Octets
  <2>1. h[1] \in Octets /\ h[2] \in Octets /\ h = <<h[1], h[2]>>
    BY <1>1, Division
  <2>2. h \in Seq(Octets)
    <3> HIDE DEF h
    <3> QED
      BY <2>1, Pair
  <2>3. 1 \in Octets
    BY WireConstants DEF Octets
  <2> QED
    BY <2>2, <2>3
<1>3. PutUint16(n) = h
  BY DEF PutUint16
<1>4. CASE channel = "control"
  <2>1. encode(m) = (<<1, m.cmd>> \o h) \o m.body
    BY <1>4 DEF encode, PutUint16
  <2>2. h = <<h[1], h[2]>> /\ h[1] \in Octets /\ h[2] \in Octets
    BY <1>1, Division
  <2> DEFINE head == <<1, m.cmd>> \o h
  <2>3. /\ head \in Seq(Octets) /\ Len(head) = 4
        /\ head[1] = 1 /\ head[2] = m.cmd /\ head[3] = h[1] /\ head[4] = h[2]
    <3> HIDE DEF h
    <3> QED
      <4>1. head = <<1, m.cmd>> \o <<h[1], h[2]>>
        BY <2>2
      <4> HIDE DEF head
      <4> QED
        BY ONLY <1>1, <1>2, <2>2, <4>1, Pairs
  <2> HIDE DEF head
  <2>4. /\ encode(m) \in Seq(Octets) /\ Len(encode(m)) = 4 + n
        /\ \A i \in 1..(4 + n) : encode(m)[i] = IF i <= 4 THEN head[i] ELSE m.body[i - 4]
    <3>1. encode(m) = head \o m.body
      BY <2>1 DEF head
    <3> QED
      <4> DEFINE body == m.body
      <4>1. body \in Seq(Octets) /\ n = Len(body)
        BY <1>1
      <4> HIDE DEF n, h, body
      <4>2. /\ head \o body \in Seq(Octets) /\ Len(head \o body) = 4 + n
            /\ \A i \in 1..(4 + n) : (head \o body)[i] = IF i <= 4 THEN head[i] ELSE body[i - 4]
        <5>1. /\ head \o body \in Seq(Octets) /\ Len(head \o body) = Len(head) + Len(body)
              /\ \A i \in 1..(Len(head) + Len(body)) :
                   (head \o body)[i] = IF i <= Len(head) THEN head[i] ELSE body[i - Len(head)]
          BY <4>1, <2>3, Concat
        <5> QED
          BY <4>1, <2>3, <5>1
      <4> QED
        BY <3>1, <4>2 DEF body
  <2>5. \A i \in 1..4 : head[i] = HeaderOctet(channel, m, i)
    BY <1>4, <2>3 DEF HeaderOctet, HL
  <2> HIDE DEF h
  <2> QED
    BY <1>1, <1>4, <2>4, <2>5 DEF OctetOf, Size, HL
<1>5. CASE channel # "control"
  <2>1. encode(m) = h \o m.body
    BY <1>5 DEF encode, PutUint16
  <2>2. /\ encode(m) \in Seq(Octets) /\ Len(encode(m)) = 2 + n
        /\ \A i \in 1..(2 + n) : encode(m)[i] = IF i <= 2 THEN h[i] ELSE m.body[i - 2]
    BY <1>1, <1>2, <2>1, ConcatProperties
  <2>3. \A i \in 1..2 : h[i] = HeaderOctet(channel, m, i)
    BY <1>5 DEF HeaderOctet, HL
  <2> HIDE DEF h
  <2> QED
    BY <1>1, <1>5, <2>2, <2>3 DEF OctetOf, Size, HL
<1> QED
  BY <1>4, <1>5 DEF Channels

\* The frames of a Write follow one another, and the first holds a length.
Tile(fr, o, c) ==
  /\ c[1] = 0 /\ c[Len(fr) + 1] = Len(o) /\ \A j \in 2..Len(fr) : c[j] > 0
  /\ \A j \in 1..Len(fr) :
       /\ c[j + 1] = c[j] + Len(fr[j])
       /\ c[j + 1] <= Len(o)
       /\ \A i \in 1..Len(fr[j]) : fr[j][i] = o[c[j] + i]

\* The frames of a written text are its parts, in order.
LEMMA Framed ==
  ASSUME NEW o \in Seq(Octets), Len(o) > 0, channel \in Channels
  PROVE  /\ frames(o) \in Seq(Seq(Octets)) /\ Len(frames(o)) > 0
         /\ channel # "control" /\ (Len(o) > 1 \/ Len(o) % MaxFrameSize = 0) => Len(frames(o)[1]) > 1
         /\ \E c \in [Nat -> Nat] : Tile(frames(o), o, c)
<1>1. CASE channel = "control"
  <2>1. frames(o) = <<o>>
    BY <1>1 DEF frames
  <2>2. frames(o) \in Seq(Seq(Octets)) /\ Len(frames(o)) = 1 /\ frames(o)[1] = o
    BY <2>1
  <2> DEFINE c == [x \in Nat |-> IF x = 1 THEN 0 ELSE Len(o)]
  <2>3. c \in [Nat -> Nat] /\ c[1] = 0 /\ c[2] = Len(o)
    OBVIOUS
  <2> HIDE DEF c
  <2>4. \A j \in 1..1 : j = 1 /\ c[j + 1] = c[2] /\ c[j] = c[1]
    OBVIOUS
  <2>5. Len(o) \in Nat /\ \A i \in 1..Len(o) : c[1] + i = i
    BY <2>3
  <2>6. Tile(<<o>>, o, c)
    <3>1. Len(<<o>>) = 1 /\ <<o>>[1] = o /\ 2..1 = {}
      OBVIOUS
    <3> QED
      BY <2>3, <2>4, <2>5, <3>1 DEF Tile
  <2>7. <<o>> \in Seq(Seq(Octets))
    OBVIOUS
  <2> QED
    BY <1>1, <2>1, <2>2, <2>3, <2>6
<1>2. CASE channel # "control"
  <2> DEFINE M == MaxFrameSize
             L == Len(o)
             K == (L + M - 1) \div M
             End(j) == IF j * M < L THEN j * M ELSE L
             fr == [i \in 1..K |-> SubSeq(o, (i - 1) * M + 1, End(i))]
             c == [x \in Nat |-> IF x = 0 THEN 0 ELSE End(x - 1)]
  <2>1. M \in Nat /\ M > 1 /\ L \in Nat /\ L > 0
    BY WireConstants
  <2>2. frames(o) = fr
    BY <1>2 DEF frames
  <2>3. K \in Nat /\ K > 0 /\ (K - 1) * M < L /\ L <= K * M
    <3> DEFINE z == (L + M - 1) % M
    <3>1. L + M - 1 \in Nat
      BY <2>1
    <3>2. L + M - 1 = K * M + z /\ z \in Nat /\ z < M /\ K \in Nat
      BY <2>1, <3>1
    <3> HIDE DEF K, z, L, M
    <3>3. (K - 1) * M = K * M - M
      BY <2>1, <3>2
    <3>4. (K - 1) * M < L /\ L <= K * M
      BY <2>1, <3>2, <3>3
    <3>5. K # 0
      BY <2>1, <3>2
    <3> QED
      BY <3>2, <3>4, <3>5
  <2> HIDE DEF K
  <2>4. \A j \in Nat : End(j) \in Nat /\ End(j) <= L
    BY <2>1
  <2>5. \A j \in 1..K : (j - 1) * M < L /\ End(j - 1) = (j - 1) * M /\ (j - 1) * M < End(j)
    <3> SUFFICES ASSUME NEW j \in 1..K PROVE (j - 1) * M < L /\ End(j - 1) = (j - 1) * M /\ (j - 1) * M < End(j)
      OBVIOUS
    <3> HIDE DEF M, L
    <3>1. (j - 1) * M <= (K - 1) * M
      BY <2>1, <2>3
    <3>2. (j - 1) * M < L
      BY <2>1, <2>3, <3>1
    <3>3. (j - 1) * M < j * M
      BY <2>1, <2>3
    <3> QED
      BY <3>2, <3>3, <2>1, <2>3
  <2>6. \A j \in 1..K : /\ fr[j] \in Seq(Octets) /\ Len(fr[j]) = End(j) - (j - 1) * M
                        /\ \A i \in 1..Len(fr[j]) : fr[j][i] = o[(j - 1) * M + i]
    <3> SUFFICES ASSUME NEW j \in 1..K
                 PROVE  /\ fr[j] \in Seq(Octets) /\ Len(fr[j]) = End(j) - (j - 1) * M
                        /\ \A i \in 1..Len(fr[j]) : fr[j][i] = o[(j - 1) * M + i]
      OBVIOUS
    <3> DEFINE a == (j - 1) * M
               b == End(j)
    <3>1. a \in Nat /\ b \in Nat /\ a < b /\ b <= L
      BY <2>1, <2>3, <2>4, <2>5
    <3>2. fr[j] = SubSeq(o, a + 1, b)
      OBVIOUS
    <3> HIDE DEF a, b, fr
    <3>3. /\ SubSeq(o, a + 1, b) \in Seq(Octets)
          /\ Len(SubSeq(o, a + 1, b)) = b - a
          /\ \A i \in 1..(b - a) : SubSeq(o, a + 1, b)[i] = o[a + i]
      BY <3>1, SubSeqProperties
    <3> QED
      BY <3>2, <3>3 DEF a, b
  <2>7. fr \in Seq(Seq(Octets)) /\ Len(fr) = K
    <3> HIDE DEF L, M
    <3>1. DOMAIN fr = 1..K /\ \A j \in 1..K : fr[j] \in Seq(Octets)
      BY <2>6
    <3>2. fr = [j \in 1..K |-> fr[j]]
      OBVIOUS
    <3> HIDE DEF fr
    <3> QED
      BY <2>3, <3>1, <3>2
  <2>8. c \in [Nat -> Nat] /\ c[1] = 0 /\ c[K + 1] = L
    <3>1. c[1] = End(0) /\ c[K + 1] = End(K)
      BY <2>3
    <3>2. End(0) = 0 /\ End(K) = L
      BY <2>1, <2>3
    <3>3. \A x \in Nat : c[x] \in Nat
      BY <2>4
    <3> QED
      BY <3>1, <3>2, <3>3
  <2>9. \A j \in 1..K : c[j] = (j - 1) * M /\ c[j + 1] = End(j)
    BY <2>3, <2>5
  <2>12. \A j \in 2..K : c[j] > 0
    <3> SUFFICES ASSUME NEW j \in 2..K PROVE c[j] > 0
      OBVIOUS
    <3>1. c[j] = (j - 1) * M
      <4>1. j \in 1..K
        BY <2>3
      <4> HIDE DEF c, M
      <4> QED
        BY <2>9, <4>1
    <3>2. PICK x : x \in Nat /\ x > 0 /\ x = j - 1
      BY <2>3
    <3> HIDE DEF c, M
    <3> QED
      BY <2>1, <3>1, <3>2
  <2>10. Len(o) > 1 \/ Len(o) % MaxFrameSize = 0 => Len(fr[1]) > 1
    <3>1. Len(fr[1]) = End(1)
      <4>1. (1 - 1) * M = 0 /\ End(1) \in Nat /\ 1 \in 1..K
        BY <2>1, <2>3, <2>4
      <4> HIDE DEF End, fr, M
      <4>2. Len(fr[1]) = End(1) - (1 - 1) * M
        BY <2>6, <4>1
      <4> QED
        BY <4>1, <4>2
    <3>2. L = 1 => L % M = 1
      BY <2>1
    <3>3. End(1) = IF M < L THEN M ELSE L
      BY <2>1
    <3> HIDE DEF End, fr
    <3> QED
      BY <2>1, <3>1, <3>2, <3>3
  <2>11. \A j \in 1..K : c[j + 1] = c[j] + Len(fr[j]) /\ c[j + 1] <= L
                         /\ \A i \in 1..Len(fr[j]) : fr[j][i] = o[c[j] + i]
    <3> SUFFICES ASSUME NEW j \in 1..K
                 PROVE  c[j + 1] = c[j] + Len(fr[j]) /\ c[j + 1] <= L
                         /\ \A i \in 1..Len(fr[j]) : fr[j][i] = o[c[j] + i]
      OBVIOUS
    <3>1. (j - 1) * M \in Nat /\ End(j) \in Nat /\ End(j) <= L
      BY <2>1, <2>3, <2>4
    <3> HIDE DEF c, fr, End, M, L
    <3> QED
      BY <2>6, <2>9, <3>1
  <2> HIDE DEF c, fr, End
  <2> QED
    BY <1>2, <2>2, <2>3, <2>7, <2>8, <2>10, <2>11, <2>12 DEF Tile
<1> QED
  BY <1>1, <1>2 DEF Channels
-----------------------------------------------------------------------------
\* all: the messages of which at least a part was written, S: the octets of the
\* stream, at: where each message begins, cut: where each frame does.

Laid(ch, all, S, start) ==
  /\ start[1] = 0
  /\ \A k \in 1..Len(all) :
       /\ start[k + 1] = start[k] + Size(ch, all[k])
       /\ \A i \in 1..Size(ch, all[k]) : S[start[k] + i] = OctetOf(ch, all[k], i)
  /\ \A j, k \in 1..(Len(all) + 1) : j < k => start[j] < start[k]

Fits(ch, all) ==
  \A k \in 1..Len(all) : Len(all[k].body) < Width /\ (ch # "control" => all[k].cmd = 0)

Cuts(bufs, S, cut) ==
  /\ \A j \in 1..Len(bufs) :
       /\ cut[j + 1] = cut[j] + Len(bufs[j])
       /\ \A i \in 1..Len(bufs[j]) : bufs[j][i] = S[cut[j] + i]
  /\ \A j \in 1..(Len(bufs) + 1) : cut[j] <= cut[Len(bufs) + 1]

\* In smux a frame in which a message begins holds the beginning of no other octets,
\* and at least the two of the length.
Starts(ch, all, start, bufs, cut) ==
  ch # "control" =>
    \A k \in 1..Len(all) : \A j \in 1..Len(bufs) :
      cut[j] <= start[k] /\ start[k] < cut[j + 1] => cut[j] = start[k] /\ Len(bufs[j]) > 1

\* Everything was written, or a Write has failed in the middle of the last message, or
\* what follows the messages is no message.
Written(all, start, w) ==
  \/ all = messages /\ w = start[Len(all) + 1]
  \/ /\ ended /\ Len(all) = Len(messages) + 1
     /\ \A k \in 1..Len(messages) : all[k] = messages[k]
     /\ start[Len(all)] < w /\ w < start[Len(all) + 1]
  \/ shifted /\ all = messages /\ w >= start[Len(all) + 1]

\* A header that is read by one Read.
Once == channel = "answers" \/ (channel = "tunnel" /\ reader.first)

InHeader(S, base, pos) ==
  /\ reader.need > 0 /\ Len(reader.got) + reader.need = HL(channel)
  /\ pos = base + Len(reader.got)
  /\ \A i \in 1..Len(reader.got) : reader.got[i] = S[base + i]
  /\ Once => reader.got = <<>>

InBody(m, S, base, pos) ==
  /\ reader.need > 0 /\ Len(reader.got) + reader.need = Len(m.body)
  /\ pos = base + HL(channel) + Len(reader.got)
  /\ \A i \in 1..Len(reader.got) : reader.got[i] = S[base + HL(channel) + i]
  /\ reader.cmd = m.cmd

Position(all, S, start, pos) ==
  /\ Len(received) <= Len(messages)
  /\ \A i \in 1..Len(received) : received[i] = messages[i]
  /\ reader.part = "header" => InHeader(S, start[Len(received) + 1], pos)
  /\ reader.part = "body" => /\ Len(received) < Len(all)
                             /\ InBody(all[Len(received) + 1], S, start[Len(received) + 1], pos)
  /\ reader.part = "eof" => ended /\ received = messages

ReaderState == [part : {"header", "body", "eof", "failed"}, need : Nat, got : Seq(Octets),
                cmd : Octets, first : BOOLEAN]

WireTypes ==
  /\ channel \in Channels /\ buffers \in Seq(Seq(Octets)) /\ ended \in BOOLEAN
  /\ reader \in ReaderState
  /\ messages \in Seq(Message) /\ received \in Seq(Message) /\ shifted \in BOOLEAN

Layout(all, S, start, cut) ==
  /\ Laid(channel, all, S, start) /\ Fits(channel, all) /\ Cuts(buffers, S, cut)
  /\ Starts(channel, all, start, buffers, cut)
  /\ Written(all, start, cut[Len(buffers) + 1]) /\ Position(all, S, start, cut[1])

\* The reader has read all the messages before the shift.
Past ==
  /\ shifted = TRUE /\ messages \in Seq(Message) /\ (\E T : received \in Seq(T))
  /\ IsPrefix(messages, received)

\* Until then what is on its way continues what has been read.
W_Inv ==
  Past \/ /\ WireTypes
          /\ \E all \in Seq(Message), S \in [Nat -> Octets], start, cut \in [Nat -> Nat] :
                Layout(all, S, start, cut)

\* The invariant holds on a new stream.
LEMMA WireStarts == WireInit => W_Inv
<1> SUFFICES ASSUME WireInit PROVE W_Inv
  OBVIOUS
<1>1. 0 \in Octets
  BY WireConstants DEF Octets
<1>2. WireTypes
  <2>1. reader = [part |-> "header", need |-> HeaderLen, got |-> <<>>, cmd |-> 0, first |-> TRUE]
    BY DEF WireInit, Header
  <2> QED
    <3>1. HeaderLen \in Nat
      BY DEF HeaderLen
    <3>2. reader \in [part : {"header", "body", "eof", "failed"}, need : Nat, got : Seq(Octets),
                      cmd : Octets, first : BOOLEAN]
      BY <1>1, <2>1, <3>1
    <3> QED
      <4>1. /\ channel \in Channels /\ buffers = <<>> /\ ended = FALSE /\ messages = <<>>
            /\ received = <<>> /\ shifted = FALSE
        BY DEF WireInit, Channels
      <4> QED
        BY ONLY <3>2, <4>1, EmptySeq DEF WireTypes, ReaderState
<1> DEFINE Z == [x \in Nat |-> 0]
<1>3. Z \in [Nat -> Octets] /\ Z \in [Nat -> Nat] /\ Z[1] = 0
  BY <1>1
<1> HIDE DEF Z
<1>4. Layout(<<>>, Z, Z, Z)
  <2>1. reader.part = "header" /\ reader.need = HL(channel) /\ reader.got = <<>> /\ reader.first
    BY DEF WireInit, Header, HeaderLen, HL
  <2>2. Position(<<>>, Z, Z, Z[1])
    <3>1. /\ reader.need > 0 /\ Len(reader.got) + reader.need = HL(channel)
          /\ Z[1] = Z[1] + Len(reader.got) /\ Len(<<>>) + 1 = 1 /\ Len(<<>>) = 0
      <4>1. HL(channel) \in {2, 4}
        BY DEF HL
      <4> QED
        BY <1>3, <2>1, <4>1
    <3>2. messages = <<>> /\ received = <<>> /\ buffers = <<>>
      BY DEF WireInit
    <3>3. InHeader(Z, Z[1], Z[1])
      BY <2>1, <3>1, <3>2 DEF InHeader
    <3> QED
      BY <2>1, <3>1, <3>2, <3>3 DEF Position
  <2>3. /\ Laid(channel, <<>>, Z, Z) /\ Fits(channel, <<>>) /\ Cuts(buffers, Z, Z)
        /\ Starts(channel, <<>>, Z, buffers, Z)
    BY <1>3 DEF WireInit, Laid, Fits, Cuts, Starts
  <2>4. Written(<<>>, Z, Z[Len(buffers) + 1])
    BY <1>3 DEF WireInit, Written
  <2> QED
    BY <2>2, <2>3, <2>4 DEF Layout
<1>5. <<>> \in Seq(Message)
  OBVIOUS
<1> QED
  BY <1>2, <1>3, <1>4, <1>5 DEF W_Inv, WireInit
-----------------------------------------------------------------------------
(* What is written. *)

\* A message takes its header and its body.
LEMMA SizePositive ==
  ASSUME NEW ch, NEW a \in Message
  PROVE  Size(ch, a) \in Nat /\ Size(ch, a) > 0 /\ Size(ch,
  a) = HL(ch) + Len(a.body) /\ HL(ch) \in {2, 4}
<1>1. HL(ch) \in {2, 4} /\ Len(a.body) \in Nat
  BY DEF HL, Message
<1> QED
  BY <1>1 DEF Size

LaidOn(ch, all, S, start, m, S2, start2) ==
  /\ Laid(ch, Append(all, m), S2, start2)
  /\ \A k \in 1..(Len(all) + 1) : start2[k] = start[k]
  /\ \A x \in Nat : x <= start[Len(all) + 1] => S2[x] = S[x]
  /\ \A i \in 1..Size(ch, m) : S2[start[Len(all) + 1] + i] = OctetOf(ch, m, i)
  /\ start2[Len(all) + 2] = start[Len(all) + 1] + Size(ch, m)

\* A message is laid behind the others.
LEMMA LaysOn ==
  ASSUME NEW ch, ch \in Channels, NEW all, all \in Seq(Message), NEW S, S \in [Nat -> Octets],
         NEW start, start \in [Nat -> Nat], Laid(ch, all, S, start), NEW m, m \in Message,
         \A i \in 1..Size(ch, m) : OctetOf(ch, m, i) \in Octets
  PROVE  \E S2 \in [Nat -> Octets], start2 \in [Nat -> Nat] : LaidOn(ch, all, S, start, m,
  S2, start2)
<1>0. \A a \in Message : Size(ch, a) \in Nat /\ Size(ch, a) > 0
  BY ONLY SizePositive
<1>1. PICK L : L \in Nat /\ L = Len(all)
  BY ONLY all \in Seq(Message)
<1>2. PICK w : w \in Nat /\ w = start[L + 1]
  BY ONLY <1>1, start \in [Nat -> Nat]
<1>3. PICK z : z \in Nat /\ z = Size(ch, m) /\ z > 0
  BY ONLY <1>0, m \in Message
<1>4. /\ Append(all, m) \in Seq(Message) /\ Len(Append(all, m)) = L + 1 /\ Append(all, m)[L + 1] = m
      /\ \A k \in 1..L : Append(all, m)[k] = all[k]
  BY ONLY <1>1, AppendProperties, all \in Seq(Message), m \in Message
<1>5. PICK al : al = Append(all, m)
  OBVIOUS
<1> DEFINE O(i) == OctetOf(ch, m, i)
           Z(a) == Size(ch, a)
           S2 == [x \in Nat |-> IF x > w /\ x <= w + z THEN O(x - w) ELSE S[x]]
           start2 == [k \in Nat |-> IF k = L + 2 THEN w + z ELSE start[k]]
<1> HIDE DEF O, Z
<1>6. \A i \in 1..z : O(i) \in Octets
  BY ONLY <1>3, \A i \in 1..Size(ch, m) : OctetOf(ch, m, i) \in Octets DEF O
<1>7. S2 \in [Nat -> Octets]
  <2>1. \A x \in Nat : x > w /\ x <= w + z => x - w \in 1..z
    BY ONLY <1>2, <1>3
  <2> QED
    BY ONLY <1>6, <2>1, S \in [Nat -> Octets]
<1>8. start2 \in [Nat -> Nat]
  <2>1. w + z \in Nat
    BY ONLY <1>2, <1>3
  <2> QED
    BY ONLY <2>1, start \in [Nat -> Nat]
<1>9. /\ \A k \in 1..(L + 1) : start2[k] = start[k]
      /\ start2[L + 2] = w + z
      /\ \A x \in Nat : x <= w => S2[x] = S[x]
      /\ \A i \in 1..z : S2[w + i] = O(i)
  <2>1. \A i \in 1..z : w + i \in Nat /\ w + i > w /\ w + i <= w + z /\ (w + i) - w = i
    BY ONLY <1>2, <1>3
  <2>2. \A k \in 1..(L + 1) : k \in Nat /\ k # L + 2
    BY ONLY <1>1
  <2>3. L + 2 \in Nat /\ \A x \in Nat : x <= w => ~(x > w)
    BY ONLY <1>1, <1>2
  <2> QED
    BY ONLY <2>1, <2>2, <2>3
<1> HIDE DEF S2, start2
<1>10. /\ start[1] = 0
       /\ \A k \in 1..L :
            /\ start[k + 1] = start[k] + Z(all[k])
            /\ \A i \in 1..Z(all[k]) : S[start[k] + i] = OctetOf(ch, all[k], i)
       /\ \A j, k \in 1..(L + 1) : j < k => start[j] < start[k]
  BY ONLY <1>1, Laid(ch, all, S, start) DEF Laid, Z
<1>11. \A k \in 1..(L + 1) : start[k] \in Nat /\ start[k] <= w
  <2>1. \A k \in 1..(L + 1) : k \in Nat /\ (k = L + 1 \/ k < L + 1) /\ L + 1 \in 1..(L + 1)
    BY ONLY <1>1
  <2>2. \A k \in Nat : start[k] \in Nat
    BY ONLY start \in [Nat -> Nat]
  <2>3. \A j, k \in 1..(L + 1) : j < k => start[j] < start[k]
    BY ONLY <1>10
  <2>4. \A x, y \in Nat : x < y \/ x = y => x <= y
    OBVIOUS
  <2> QED
    BY ONLY <1>2, <2>1, <2>2, <2>3, <2>4
<1>12. start2[1] = 0
  BY ONLY <1>1, <1>9, <1>10
<1>13. \A k \in 1..(L + 1) : /\ start2[k + 1] = start2[k] + Z(al[k])
                             /\ \A i \in 1..Z(al[k]) : S2[start2[k] + i] = OctetOf(ch, al[k], i)
  <2> SUFFICES ASSUME NEW k \in 1..(L + 1)
               PROVE  /\ start2[k + 1] = start2[k] + Z(al[k])
                      /\ \A i \in 1..Z(al[k]) : S2[start2[k] + i] = OctetOf(ch, al[k], i)
    OBVIOUS
  <2>1. CASE k = L + 1
    <3>1. al[k] = m /\ start2[k] = w /\ start2[k + 1] = w + z
      <4>1. k + 1 = L + 2
        BY ONLY <1>1, <2>1
      <4> QED
        BY ONLY <1>1, <1>2, <1>4, <1>5, <1>9, <2>1, <4>1
    <3>2. Z(m) = z
      BY ONLY <1>3 DEF Z
    <3> QED
      BY ONLY <1>9, <3>1, <3>2 DEF O
  <2>2. CASE k # L + 1
    <3>1. k \in 1..L /\ k + 1 \in 1..(L + 1)
      BY ONLY <1>1, <2>2, k \in 1..(L + 1)
    <3>2. al[k] = all[k] /\ start2[k] = start[k] /\ start2[k + 1] = start[k + 1]
      BY ONLY <1>4, <1>5, <1>9, <3>1, k \in 1..(L + 1)
    <3>3. PICK y : y = Z(all[k])
      OBVIOUS
    <3>4. start[k] \in Nat /\ start[k + 1] <= w /\ y \in Nat /\ start[k + 1] = start[k] + y
      <4>1. all[k] \in Message
        BY ONLY <1>1, <3>1, all \in Seq(Message)
      <4>2. y \in Nat
        BY ONLY <1>0, <3>3, <4>1 DEF Z
      <4> QED
        BY ONLY <1>10, <1>11, <3>1, <3>3, <4>2, k \in 1..(L + 1)
    <3>5. \A i \in 1..y : start[k] + i \in Nat /\ start[k] + i <= w
      BY ONLY <1>2, <3>4
    <3>6. \A i \in 1..y : S2[start[k] + i] = S[start[k] + i]
      BY ONLY <1>9, <3>5
    <3> QED
      BY ONLY <1>10, <3>1, <3>2, <3>3, <3>6
  <2> QED
    BY ONLY <2>1, <2>2
<1>14. \A j, k \in 1..(L + 2) : j < k => start2[j] < start2[k]
  <2> SUFFICES ASSUME NEW j \in 1..(L + 2), NEW k \in 1..(L + 2), j < k PROVE start2[j] < start2[k]
    OBVIOUS
  <2>1. j \in 1..(L + 1) /\ (k = L + 2 \/ k \in 1..(L + 1))
    BY ONLY <1>1, j \in 1..(L + 2), k \in 1..(L + 2), j < k
  <2>2. start2[j] = start[j] /\ start[j] \in Nat /\ start[j] <= w
    BY ONLY <1>9, <1>11, <2>1
  <2>3. CASE k = L + 2
    BY ONLY <1>2, <1>3, <1>9, <2>2, <2>3
  <2>4. CASE k \in 1..(L + 1)
    BY ONLY <1>9, <1>10, <2>1, <2>2, <2>4, j < k
  <2> QED
    BY ONLY <2>1, <2>3, <2>4
<1>15. Laid(ch, al, S2, start2)
  <2>1. Len(al) = L + 1 /\ Len(al) + 1 = L + 2
    BY ONLY <1>1, <1>4, <1>5
  <2> QED
    BY ONLY <1>12, <1>13, <1>14, <2>1 DEF Laid, Z
<1>16. LaidOn(ch, all, S, start, m, S2, start2)
  BY ONLY <1>1, <1>2, <1>3, <1>5, <1>9, <1>15 DEF O, LaidOn
<1> QED
  BY ONLY <1>7, <1>8, <1>16

CutOn(bufs, fr, S2, cut, n, cut2) ==
  /\ Cuts(bufs \o fr, S2, cut2) /\ cut2[1] = cut[1]
  /\ cut2[Len(bufs \o fr) + 1] = cut[Len(bufs) + 1] + n
  /\ \A j \in 1..(Len(bufs) + 1) : cut2[j] = cut[j]
  /\ \A j \in 2..Len(fr) : cut2[Len(bufs) + j] > cut[Len(bufs) + 1]

\* Frames are put behind others.
LEMMA CutsOn ==
  ASSUME NEW bufs, bufs \in Seq(Seq(Octets)), NEW fr, fr \in Seq(Seq(Octets)),
         NEW S, NEW S2, NEW cut, cut \in [Nat -> Nat], Cuts(bufs, S, cut),
         \A x \in Nat : x <= cut[Len(bufs) + 1] => S2[x] = S[x],
         NEW o, o \in Seq(Octets), \A i \in 1..Len(o) : S2[cut[Len(bufs) + 1] + i] = o[i],
         NEW c, c \in [Nat -> Nat], Tile(fr, o, c)
  PROVE  \E cut2 \in [Nat -> Nat] : CutOn(bufs, fr, S2, cut, Len(o), cut2)
<1>1. PICK B : B \in Nat /\ B = Len(bufs)
  BY ONLY bufs \in Seq(Seq(Octets))
<1>2. PICK F : F \in Nat /\ F = Len(fr)
  BY ONLY fr \in Seq(Seq(Octets))
<1>3. PICK n : n \in Nat /\ n = Len(o)
  BY ONLY o \in Seq(Octets)
<1>4. PICK w : w \in Nat /\ w = cut[B + 1]
  BY ONLY <1>1, cut \in [Nat -> Nat]
<1>5. PICK al : al = bufs \o fr
  OBVIOUS
<1>6. al \in Seq(Seq(Octets)) /\ Len(al) = B + F /\ \A j \in 1..(B + F) : al[j] = IF j <= B THEN bufs[j] ELSE fr[j - B]
  BY ONLY <1>1, <1>2, <1>5, Concat, bufs \in Seq(Seq(Octets)), fr \in Seq(Seq(Octets))
<1>7. /\ \A x \in Nat : x <= w => S2[x] = S[x]
      /\ \A i \in 1..n : S2[w + i] = o[i]
  BY ONLY <1>1, <1>3, <1>4, \A x \in Nat : x <= cut[Len(bufs) + 1] => S2[x] = S[x],
     \A i \in 1..Len(o) : S2[cut[Len(bufs) + 1] + i] = o[i]
<1>8. /\ \A j \in 1..B : cut[j + 1] = cut[j] + Len(bufs[j]) /\ \A i \in 1..Len(bufs[j]) : bufs[j][i] = S[cut[j] + i]
      /\ \A j \in 1..(B + 1) : cut[j] <= w
  BY ONLY <1>1, <1>4, Cuts(bufs, S, cut) DEF Cuts
<1>9. /\ c[1] = 0 /\ c[F + 1] = n
      /\ \A j \in 1..F : /\ c[j + 1] = c[j] + Len(fr[j]) /\ c[j + 1] <= n
                         /\ \A i \in 1..Len(fr[j]) : fr[j][i] = o[c[j] + i]
  BY ONLY <1>2, <1>3, Tile(fr, o, c) DEF Tile
<1>10. (\A j \in 1..B : Len(bufs[j]) \in Nat) /\ (\A j \in 1..F : Len(fr[j]) \in Nat)
  <2>1. \A x \in Seq(Octets) : Len(x) \in Nat
    OBVIOUS
  <2>2. (\A j \in 1..B : bufs[j] \in Seq(Octets)) /\ (\A j \in 1..F : fr[j] \in Seq(Octets))
    BY ONLY <1>1, <1>2, bufs \in Seq(Seq(Octets)), fr \in Seq(Seq(Octets))
  <2> QED
    BY ONLY <2>1, <2>2
<1> DEFINE cut2 == [j \in Nat |-> IF j <= B + 1 THEN cut[j] ELSE w + c[j - B]]
<1>11. cut2 \in [Nat -> Nat]
  <2>1. \A j \in Nat : ~(j <= B + 1) => j - B \in Nat
    BY ONLY <1>1
  <2>2. \A x, y \in Nat : x + y \in Nat
    OBVIOUS
  <2> QED
    BY ONLY <1>4, <2>1, <2>2, cut \in [Nat -> Nat], c \in [Nat -> Nat]
<1>12. /\ \A j \in 1..(B + 1) : cut2[j] = cut[j]
       /\ \A j \in 1..(F + 1) : cut2[B + j] = w + c[j]
  <2>1. \A j \in 1..(F + 1) : B + j \in Nat /\ (B + j <= B + 1 => j = 1) /\ (B + j) - B = j
    BY ONLY <1>1, <1>2
  <2>2. \A j \in 1..(B + 1) : j \in Nat /\ j <= B + 1
    BY ONLY <1>1
  <2>3. w + 0 = w
    BY ONLY <1>4
  <2> QED
    BY ONLY <1>4, <1>9, <2>1, <2>2, <2>3
<1> HIDE DEF cut2
<1>13. (\A j \in Nat : cut[j] \in Nat) /\ (\A j \in Nat : c[j] \in Nat)
  BY ONLY cut \in [Nat -> Nat], c \in [Nat -> Nat]
<1>14. \A j \in 1..(B + F) : cut2[j + 1] = cut2[j] + Len(al[j])
                            /\ \A i \in 1..Len(al[j]) : al[j][i] = S2[cut2[j] + i]
  <2> SUFFICES ASSUME NEW j \in 1..(B + F)
               PROVE  cut2[j + 1] = cut2[j] + Len(al[j]) /\ \A i \in 1..Len(al[j]) : al[j][i] = S2[cut2[j] + i]
    OBVIOUS
  <2>1. CASE j <= B
    <3>1. j \in 1..B /\ j \in 1..(B + 1) /\ j + 1 \in 1..(B + 1) /\ j \in Nat
      BY ONLY <1>1, <1>2, <2>1, j \in 1..(B + F)
    <3>2. al[j] = bufs[j] /\ cut2[j] = cut[j] /\ cut2[j + 1] = cut[j + 1]
      BY ONLY <1>6, <1>12, <2>1, <3>1, j \in 1..(B + F)
    <3>3. PICK y : y \in Nat /\ y = Len(bufs[j])
      BY ONLY <1>10, <3>1
    <3>4. cut[j] \in Nat /\ cut[j + 1] = cut[j] + y /\ cut[j + 1] <= w
      BY ONLY <1>8, <1>13, <3>1, <3>3
    <3>5. \A i \in 1..y : cut[j] + i \in Nat /\ cut[j] + i <= w
      BY ONLY <1>4, <3>3, <3>4
    <3>6. cut2[j + 1] = cut2[j] + Len(al[j])
      BY ONLY <3>2, <3>3, <3>4
    <3>7. \A i \in 1..y : bufs[j][i] = S[cut[j] + i]
      BY ONLY <1>8, <3>1, <3>3
    <3>8. \A i \in 1..y : S2[cut[j] + i] = S[cut[j] + i]
      BY ONLY <1>7, <3>5
    <3> QED
      BY ONLY <3>2, <3>3, <3>6, <3>7, <3>8
  <2>2. CASE j > B
    <3>1. PICK g : g \in 1..F /\ j = B + g
      <4>1. j - B \in 1..F /\ j = B + (j - B)
        BY ONLY <1>1, <1>2, <2>2, j \in 1..(B + F)
      <4> QED
        BY ONLY <4>1
    <3>2. g \in Nat /\ g \in 1..(F + 1) /\ g + 1 \in 1..(F + 1) /\ j + 1 = B + (g + 1) /\ j - B = g /\ ~(j <= B)
      BY ONLY <1>1, <1>2, <2>2, <3>1
    <3>3. al[j] = fr[g] /\ cut2[j] = w + c[g] /\ cut2[j + 1] = w + c[g + 1]
      BY ONLY <1>6, <1>12, <3>1, <3>2, j \in 1..(B + F)
    <3>4. PICK y : y \in Nat /\ y = Len(fr[g])
      BY ONLY <1>10, <3>1
    <3>5. PICK a : a \in Nat /\ a = c[g]
      BY ONLY <1>13, <3>2
    <3>6. c[g + 1] = a + y /\ a + y <= n
      BY ONLY <1>9, <3>1, <3>4, <3>5
    <3>7. \A i \in 1..y : a + i \in 1..n /\ (w + a) + i = w + (a + i)
      BY ONLY <1>3, <1>4, <3>4, <3>5, <3>6
    <3>8. w + (a + y) = (w + a) + y
      BY ONLY <1>4, <3>4, <3>5
    <3> QED
      BY ONLY <1>7, <1>9, <3>1, <3>3, <3>4, <3>5, <3>6, <3>7, <3>8
  <2>3. j <= B \/ j > B
    BY ONLY <1>1, <1>2, j \in 1..(B + F)
  <2> QED
    BY ONLY <2>1, <2>2, <2>3
<1>15. cut2[B + F + 1] = w + n
  <2>1. F + 1 \in 1..(F + 1) /\ B + (F + 1) = B + F + 1
    BY ONLY <1>1, <1>2
  <2> QED
    BY ONLY <1>9, <1>12, <2>1
<1>16. \A j \in 1..(B + F + 1) : cut2[j] <= w + n
  <2> SUFFICES ASSUME NEW j \in 1..(B + F + 1) PROVE cut2[j] <= w + n
    OBVIOUS
  <2>1. CASE j <= B + 1
    <3>1. j \in 1..(B + 1) /\ j \in Nat
      BY ONLY <1>1, <1>2, <2>1, j \in 1..(B + F + 1)
    <3>2. cut2[j] = cut[j] /\ cut[j] \in Nat /\ cut[j] <= w
      BY ONLY <1>8, <1>12, <1>13, <3>1
    <3> QED
      BY ONLY <1>3, <1>4, <3>2
  <2>2. CASE j > B + 1
    <3>1. PICK g : g \in 1..F /\ j = B + (g + 1)
      <4>1. j - B - 1 \in 1..F /\ j = B + ((j - B - 1) + 1)
        BY ONLY <1>1, <1>2, <2>2, j \in 1..(B + F + 1)
      <4> QED
        BY ONLY <4>1
    <3>2. g + 1 \in 1..(F + 1) /\ g + 1 \in Nat
      BY ONLY <1>2, <3>1
    <3>3. cut2[j] = w + c[g + 1] /\ c[g + 1] \in Nat /\ c[g + 1] <= n
      BY ONLY <1>9, <1>12, <1>13, <3>1, <3>2
    <3> QED
      BY ONLY <1>3, <1>4, <3>3
  <2>3. j <= B + 1 \/ j > B + 1
    BY ONLY <1>1, <1>2, j \in 1..(B + F + 1)
  <2> QED
    BY ONLY <2>1, <2>2, <2>3
<1>17. Cuts(al, S2, cut2)
  BY ONLY <1>6, <1>14, <1>15, <1>16 DEF Cuts
<1>18. cut2[1] = cut[1]
  <2>1. 1 \in 1..(B + 1)
    BY ONLY <1>1
  <2> QED
    BY ONLY <1>12, <2>1
<1>20. \A j \in 2..F : cut2[B + j] > w
  <2> SUFFICES ASSUME NEW j \in 2..F PROVE cut2[B + j] > w
    OBVIOUS
  <2>1. j \in 1..(F + 1) /\ j \in Nat
    BY ONLY <1>2, j \in 2..F
  <2>2. cut2[B + j] = w + c[j] /\ c[j] > 0 /\ c[j] \in Nat
    BY ONLY <1>2, <1>12, <1>13, <2>1, Tile(fr, o, c), j \in 2..F DEF Tile
  <2> QED
    BY ONLY <1>4, <2>2
<1>19. CutOn(bufs, fr, S2, cut, Len(o), cut2)
  BY ONLY <1>1, <1>2, <1>3, <1>4, <1>5, <1>6, <1>12, <1>15, <1>17, <1>18, <1>20 DEF CutOn
<1> QED
  BY ONLY <1>11, <1>19

\* Two functions agree on T.
Same(f, g, T) == \A x \in T : f[x] = g[x]

\* All messages begin before w, and one more begins there with the frames fr.
Before(all, start, w) == \A k \in 1..Len(all) : start[k] < w
AtMostOne(ch, all, al, start2, fr, w) ==
  \/ Len(al) = Len(all)
  \/ /\ Len(al) = Len(all) + 1 /\ start2[Len(al)] = w
     /\ ch # "control" => Len(fr[1]) > 1

\* Frames that begin with a message, or behind all messages, keep the frames' order.
LEMMA StartsOn ==
  ASSUME NEW ch, NEW all, all \in Seq(Message), NEW start, start \in [Nat -> Nat],
         NEW bufs, bufs \in Seq(Seq(Octets)), NEW fr, fr \in Seq(Seq(Octets)),
         NEW S, NEW S2, NEW cut, cut \in [Nat -> Nat], NEW cut2, cut2 \in [Nat -> Nat],
         NEW n, n \in Nat, Cuts(bufs, S, cut), CutOn(bufs, fr, S2, cut, n, cut2),
         Starts(ch, all, start, bufs, cut),
         NEW w, w = cut[Len(bufs) + 1], Before(all, start, w),
         NEW al, NEW start2, Same(start2, start, 1..Len(all)),
         AtMostOne(ch, all, al, start2, fr, w)
  PROVE  Starts(ch, al, start2, bufs \o fr, cut2)
<1> SUFFICES ASSUME ch # "control", NEW k, k \in 1..Len(al), NEW j, j \in 1..Len(bufs \o fr),
                    cut2[j] <= start2[k], start2[k] < cut2[j + 1]
             PROVE  cut2[j] = start2[k] /\ Len((bufs \o fr)[j]) > 1
  BY DEF Starts
<1>1. PICK B : B \in Nat /\ B = Len(bufs)
  BY ONLY bufs \in Seq(Seq(Octets))
<1>2. PICK F : F \in Nat /\ F = Len(fr)
  BY ONLY fr \in Seq(Seq(Octets))
<1>3. PICK L : L \in Nat /\ L = Len(all)
  BY ONLY all \in Seq(Message)
<1>4. PICK ap : ap = bufs \o fr
  OBVIOUS
<1>5. Len(ap) = B + F /\ \A i \in 1..(B + F) : ap[i] = IF i <= B THEN bufs[i] ELSE fr[i - B]
  BY ONLY <1>1, <1>2, <1>4, Concat, bufs \in Seq(Seq(Octets)), fr \in Seq(Seq(Octets))
<1>6. w \in Nat /\ (\A i \in Nat : cut[i] \in Nat /\ cut2[i] \in Nat /\ start[i] \in Nat)
      /\ w = cut[B + 1]
  <2>1. B + 1 \in Nat
    BY ONLY <1>1
  <2>2. \A i \in Nat : cut[i] \in Nat /\ cut2[i] \in Nat /\ start[i] \in Nat
    BY ONLY cut \in [Nat -> Nat], cut2 \in [Nat -> Nat], start \in [Nat -> Nat]
  <2>3. w = cut[B + 1]
    BY ONLY <1>1, w = cut[Len(bufs) + 1]
  <2> QED
    BY ONLY <2>1, <2>2, <2>3
<1>7. /\ \A i \in 1..(B + 1) : cut2[i] = cut[i]
      /\ \A i \in 2..F : cut2[B + i] > w
  BY ONLY <1>1, <1>2, <1>6, CutOn(bufs, fr, S2, cut, n, cut2) DEF CutOn
<1>8. \A i \in 1..(B + 1) : cut[i] <= w
  BY ONLY <1>1, <1>6, Cuts(bufs, S, cut) DEF Cuts
<1>9. j \in 1..(B + F) /\ j \in Nat
  BY ONLY <1>1, <1>2, <1>4, <1>5, j \in 1..Len(bufs \o fr)
<1>10. j > B => cut2[j] >= w /\ (j > B + 1 => cut2[j] > w)
  <2> SUFFICES ASSUME j > B PROVE cut2[j] >= w /\ (j > B + 1 => cut2[j] > w)
    OBVIOUS
  <2>1. CASE j = B + 1
    <3>1. B + 1 \in 1..(B + 1)
      BY ONLY <1>1
    <3> QED
      BY ONLY <1>1, <1>6, <1>7, <2>1, <3>1
  <2>2. CASE j # B + 1
    <3>1. PICK i : i \in 2..F /\ j = B + i
      <4>1. j - B \in 2..F /\ j = B + (j - B)
        BY ONLY <1>1, <1>2, <1>9, <2>2, j > B
      <4> QED
        BY ONLY <4>1
    <3>2. cut2[j] > w
      BY ONLY <1>7, <3>1
    <3> QED
      BY ONLY <1>6, <1>9, <3>2
  <2> QED
    BY ONLY <2>1, <2>2
<1>11. j <= B => /\ j \in 1..B /\ cut2[j] = cut[j] /\ cut2[j + 1] = cut[j + 1] /\ cut[j + 1] <= w
                 /\ ap[j] = bufs[j]
  <2> SUFFICES ASSUME j <= B
               PROVE  /\ j \in 1..B /\ cut2[j] = cut[j] /\ cut2[j + 1] = cut[j + 1]
                      /\ cut[j + 1] <= w /\ ap[j] = bufs[j]
    OBVIOUS
  <2>1. j \in 1..B /\ j \in 1..(B + 1) /\ j + 1 \in 1..(B + 1)
    BY ONLY <1>1, <1>9, j <= B
  <2> QED
    BY ONLY <1>5, <1>7, <1>8, <1>9, <2>1, j <= B
<1>12. j <= B \/ j = B + 1 \/ (j > B + 1 /\ j > B)
  BY ONLY <1>1, <1>9
<1>13. CASE k \in 1..L
  <2>1. start2[k] = start[k] /\ start[k] < w /\ start[k] \in Nat
    BY ONLY <1>3, <1>6, <1>13, Before(all, start, w),
       Same(start2, start, 1..Len(all)) DEF Before, Same
  <2>2. j <= B
    <3>1. ~(cut2[j] >= w)
      BY ONLY <1>6, <1>9, <2>1, cut2[j] <= start2[k]
    <3> QED
      BY ONLY <1>1, <1>9, <1>10, <3>1
  <2>3. cut[j] <= start[k] /\ start[k] < cut[j + 1] /\ j \in 1..B
    BY ONLY <1>11, <2>1, <2>2, cut2[j] <= start2[k], start2[k] < cut2[j + 1]
  <2>4. cut[j] = start[k] /\ Len(bufs[j]) > 1
    BY ONLY <1>1, <1>3, <1>13, <2>3, ch # "control", Starts(ch, all, start, bufs, cut) DEF Starts
  <2> QED
    BY ONLY <1>4, <1>11, <2>1, <2>2, <2>4
<1>14. CASE k \notin 1..L
  <2>1. start2[k] = w /\ Len(fr[1]) > 1
    <3>1. k = L + 1 /\ Len(al) = L + 1
      BY ONLY <1>3, <1>14, k \in 1..Len(al), AtMostOne(ch, all, al, start2, fr, w) DEF AtMostOne
    <3>2. ~(Len(al) = Len(all))
      BY ONLY <1>3, <3>1
    <3> QED
      BY ONLY <3>1, <3>2, ch # "control", AtMostOne(ch, all, al, start2, fr, w) DEF AtMostOne
  <2>2. ~(j <= B)
    <3> SUFFICES ASSUME j <= B PROVE FALSE
      OBVIOUS
    <3>1. cut[j + 1] <= w /\ w < cut[j + 1] /\ j + 1 \in Nat
      BY ONLY <1>9, <1>11, <2>1, j <= B, start2[k] < cut2[j + 1]
    <3> QED
      BY ONLY <1>6, <3>1
  <2>3. ~(j > B + 1)
    BY ONLY <1>6, <1>9, <1>10, <1>12, <2>1, <2>2, cut2[j] <= start2[k]
  <2>4. j = B + 1
    BY ONLY <1>12, <2>2, <2>3
  <2>5. cut2[j] = w /\ ap[j] = fr[1]
    <3>1. B + 1 \in 1..(B + 1) /\ (B + 1) - B = 1 /\ ~(B + 1 <= B)
      BY ONLY <1>1
    <3> QED
      BY ONLY <1>5, <1>6, <1>7, <1>9, <2>4, <3>1
  <2> QED
    BY ONLY <1>4, <2>1, <2>5
<1> QED
  BY ONLY <1>13, <1>14
-----------------------------------------------------------------------------
(* What is read. *)

Remaining(bufs, n) ==
  IF n = Len(Head(bufs)) THEN Tail(bufs)
  ELSE <<SubSeq(Head(bufs), n + 1, Len(Head(bufs)))>> \o Tail(bufs)
Spans(bufs, S, cut, from, to) ==
  Cuts(bufs, S, cut) /\ cut[1] = from /\ cut[Len(bufs) + 1] = to

\* Every frame left is a frame of before, or the end of one.
Ends(bufs, cut, tail, cut2) ==
  \A j \in 1..Len(tail) : \E i \in 1..Len(bufs) :
    /\ cut2[j + 1] = cut[i + 1]
    /\ (cut2[j] = cut[i] /\ tail[j] = bufs[i]) \/ cut2[j] > cut[i]

\* So no message begins inside a frame.
LEMMA StartsLeft ==
  ASSUME NEW ch, NEW all, NEW start, start \in [Nat -> Nat], NEW bufs,
  bufs \in Seq(Seq(Octets)),
         NEW tail, tail \in Seq(Seq(Octets)), NEW cut, cut \in [Nat -> Nat],
         all \in Seq(Message),
         NEW cut2, cut2 \in [Nat -> Nat], Ends(bufs, cut, tail, cut2),
         Starts(ch, all, start, bufs, cut)
  PROVE  Starts(ch, all, start, tail, cut2)
<1> SUFFICES ASSUME ch # "control", NEW k, k \in 1..Len(all), NEW j, j \in 1..Len(tail),
                    cut2[j] <= start[k], start[k] < cut2[j + 1]
             PROVE  cut2[j] = start[k] /\ Len(tail[j]) > 1
  BY DEF Starts
<1>1. PICK i : /\ i \in 1..Len(bufs) /\ cut2[j + 1] = cut[i + 1]
               /\ (cut2[j] = cut[i] /\ tail[j] = bufs[i]) \/ cut2[j] > cut[i]
  BY ONLY Ends(bufs, cut, tail, cut2), j \in 1..Len(tail) DEF Ends
<1>2. cut[i] \in Nat /\ cut2[j] \in Nat /\ start[k] \in Nat
  <2>1. Len(bufs) \in Nat /\ Len(tail) \in Nat /\ Len(all) \in Nat
    BY ONLY bufs \in Seq(Seq(Octets)), tail \in Seq(Seq(Octets)), all \in Seq(Message)
  <2>2. i \in Nat /\ j \in Nat /\ k \in Nat
    BY ONLY <1>1, <2>1, j \in 1..Len(tail), k \in 1..Len(all)
  <2> QED
    BY ONLY <2>2, cut \in [Nat -> Nat], cut2 \in [Nat -> Nat], start \in [Nat -> Nat]
<1>3. cut[i] <= start[k]
  BY ONLY <1>1, <1>2, cut2[j] <= start[k]
<1>4. cut[i] = start[k] /\ Len(bufs[i]) > 1
  BY ONLY <1>1, <1>3, ch # "control", k \in 1..Len(all), start[k] < cut2[j + 1],
     Starts(ch, all, start, bufs, cut) DEF Starts
<1>5. ~(cut2[j] > cut[i])
  BY ONLY <1>2, <1>4, cut2[j] <= start[k]
<1> QED
  BY ONLY <1>1, <1>4, <1>5

Taken(bufs, S, cut, n, tail, piece) ==
  /\ tail \in Seq(Seq(Octets)) /\ cut[1] + n <= cut[Len(bufs) + 1]
  /\ piece \in Seq(Octets) /\ Len(piece) = n
  /\ \A i \in 1..n : piece[i] = S[cut[1] + i]
  /\ \E cut2 \in [Nat -> Nat] : /\ Spans(tail, S, cut2, cut[1] + n, cut[Len(bufs) + 1])
                               /\ Ends(bufs, cut, tail, cut2)

\* A Read takes the next octets of the stream.
LEMMA Takes ==
  ASSUME NEW bufs, bufs \in Seq(Seq(Octets)), bufs # <<>>, NEW S, NEW cut, cut \in [Nat -> Nat],
         Cuts(bufs, S, cut), NEW n, n \in 1..Len(Head(bufs)), NEW tail,
         tail = Remaining(bufs, n),
         NEW piece, piece = SubSeq(Head(bufs), 1, n)
  PROVE  Taken(bufs, S, cut, n, tail, piece)
<1>0. tail = IF n = Len(Head(bufs)) THEN Tail(bufs)
             ELSE <<SubSeq(Head(bufs), n + 1, Len(Head(bufs)))>> \o Tail(bufs)
  BY ONLY tail = Remaining(bufs, n) DEF Remaining
<1>1. PICK B : B \in Nat /\ B > 0 /\ B = Len(bufs)
  BY ONLY bufs \in Seq(Seq(Octets)), bufs # <<>>
<1>2. PICK h : h \in Seq(Octets) /\ h = Head(bufs) /\ h = bufs[1]
  BY ONLY bufs \in Seq(Seq(Octets)), bufs # <<>>
<1>3. PICK l : l \in Nat /\ l = Len(h) /\ n \in 1..l
  BY ONLY <1>2, n \in 1..Len(Head(bufs))
<1>4. PICK t : t = Tail(bufs) /\ t \in Seq(Seq(Octets)) /\ Len(t) = B - 1 /\ \A j \in 1..(B - 1) : t[j] = bufs[j + 1]
  <2>1. /\ Tail(bufs) \in Seq(Seq(Octets)) /\ Len(Tail(bufs)) = Len(bufs) - 1
        /\ \A j \in 1..Len(Tail(bufs)) : Tail(bufs)[j] = bufs[j + 1]
    BY ONLY bufs \in Seq(Seq(Octets)), bufs # <<>>, HeadTailProperties
  <2> QED
    BY ONLY <1>1, <2>1
<1>5. /\ \A j \in 1..B : cut[j + 1] = cut[j] + Len(bufs[j]) /\ \A i \in 1..Len(bufs[j]) : bufs[j][i] = S[cut[j] + i]
      /\ \A j \in 1..(B + 1) : cut[j] <= cut[B + 1]
  BY ONLY <1>1, Cuts(bufs, S, cut) DEF Cuts
<1>6. \A j \in Nat : cut[j] \in Nat
  BY ONLY cut \in [Nat -> Nat]
<1>7. PICK p : p \in Nat /\ p = cut[1]
  BY ONLY <1>6
<1>8. cut[2] = p + l /\ cut[2] <= cut[B + 1] /\ \A i \in 1..l : h[i] = S[p + i]
  <2>1. 1 \in 1..B /\ 2 \in 1..(B + 1)
    BY ONLY <1>1
  <2> QED
    BY ONLY <1>2, <1>3, <1>5, <1>7, <2>1
<1>9. p + n <= p + l /\ p + n <= cut[B + 1] /\ n \in Nat /\ n > 0 /\ n <= l
  BY ONLY <1>1, <1>3, <1>6, <1>7, <1>8
<1>10. /\ SubSeq(h, 1, n) \in Seq(Octets) /\ Len(SubSeq(h, 1, n)) = n
       /\ \A i \in 1..n : SubSeq(h, 1, n)[i] = h[i]
  BY ONLY <1>2, <1>3, <1>9, SubSeqProperties
<1>11. \A i \in 1..n : SubSeq(h, 1, n)[i] = S[p + i]
  <2>1. \A i \in 1..n : i \in 1..l
    BY ONLY <1>3, <1>9
  <2> QED
    BY ONLY <1>8, <1>10, <2>1
<1>12. tail \in Seq(Seq(Octets)) /\ \E cut2 \in [Nat -> Nat] :
              /\ Cuts(tail, S, cut2) /\ cut2[1] = p + n /\ cut2[Len(tail) + 1] = cut[B + 1]
              /\ Ends(bufs, cut, tail, cut2)
  <2>1. CASE n = l
    <3> DEFINE cut2 == [j \in Nat |-> cut[j + 1]]
    <3>1. cut2 \in [Nat -> Nat] /\ \A j \in Nat : cut2[j] = cut[j + 1]
      BY ONLY <1>6
    <3> HIDE DEF cut2
    <3>2. tail = t
      BY ONLY <1>2, <1>3, <1>4, <2>1, <1>0
    <3>3. cut2[1] = p + n /\ cut2[(B - 1) + 1] = cut[B + 1]
      <4>1. (B - 1) + 1 = B /\ B \in Nat
        BY ONLY <1>1
      <4>2. 1 \in Nat /\ 1 + 1 = 2
        OBVIOUS
      <4> QED
        BY ONLY <1>8, <2>1, <3>1, <4>1, <4>2
    <3>4. Cuts(t, S, cut2)
      <4>1. \A j \in 1..(B - 1) : j \in Nat /\ j + 1 \in Nat /\ j + 1 \in 1..B
        BY ONLY <1>1
      <4>2. \A j \in 1..(B - 1) : /\ cut2[j + 1] = cut2[j] + Len(t[j])
                                 /\ \A i \in 1..Len(t[j]) : t[j][i] = S[cut2[j] + i]
        <5> SUFFICES ASSUME NEW j, j \in 1..(B - 1)
                     PROVE  /\ cut2[j + 1] = cut2[j] + Len(t[j])
                            /\ \A i \in 1..Len(t[j]) : t[j][i] = S[cut2[j] + i]
          OBVIOUS
        <5>1. PICK k : k = j + 1 /\ k \in Nat /\ k \in 1..B
          BY ONLY <4>1, j \in 1..(B - 1)
        <5>2. t[j] = bufs[k] /\ cut2[j] = cut[k] /\ cut2[j + 1] = cut[k + 1]
          BY ONLY <1>4, <3>1, <4>1, <5>1, j \in 1..(B - 1)
        <5> QED
          BY ONLY <1>5, <5>1, <5>2
      <4>3. \A j \in 1..((B - 1) + 1) : j \in Nat /\ j + 1 \in 1..(B + 1)
        BY ONLY <1>1
      <4>4. \A j \in 1..((B - 1) + 1) : cut2[j] <= cut2[(B - 1) + 1]
        BY ONLY <1>5, <3>1, <3>3, <4>3
      <4> QED
        BY ONLY <1>4, <4>2, <4>4 DEF Cuts
    <3>5. Ends(bufs, cut, t, cut2)
      <4> SUFFICES ASSUME NEW j, j \in 1..(B - 1)
                   PROVE  \E i \in 1..B : cut2[j + 1] = cut[i + 1] /\ cut2[j] = cut[i] /\ t[j] = bufs[i]
        BY <1>1, <1>4 DEF Ends
      <4>1. PICK i : i = j + 1 /\ i \in 1..B /\ j \in Nat /\ j + 1 \in Nat
        BY ONLY <1>1, j \in 1..(B - 1)
      <4>2. cut2[j + 1] = cut[i + 1] /\ cut2[j] = cut[i] /\ t[j] = bufs[i]
        BY ONLY <1>4, <3>1, <4>1, j \in 1..(B - 1)
      <4> QED
        BY ONLY <4>1, <4>2
    <3> QED
      BY ONLY <1>4, <3>1, <3>2, <3>3, <3>4, <3>5
  <2>2. CASE n # l
    <3>1. PICK u : u = SubSeq(h, n + 1, l)
      OBVIOUS
    <3>2. n < l
      BY ONLY <1>3, <1>9, <2>2
    <3>3. u \in Seq(Octets) /\ Len(u) = l - n /\ \A i \in 1..(l - n) : u[i] = h[n + i]
      <4>1. n + 1 \in 1..(l + 1) /\ l \in n..l /\ l - (n + 1) + 1 = l - n
            /\ \A i \in 1..(l - n) : (n + 1) + i - 1 = n + i
        BY ONLY <1>3, <1>9, <3>2
      <4>2. n + 1 \in Int /\ l \in Int /\ n + 1 <= l
        BY ONLY <1>3, <1>9, <3>2
      <4>3. \A i \in (n + 1)..l : h[i] \in Octets
        <5>1. \A i \in (n + 1)..l : i \in 1..l
          BY ONLY <1>9, <4>2
        <5> QED
          BY ONLY <1>2, <1>3, <5>1
      <4>4. /\ SubSeq(h, n + 1, l) \in Seq(Octets)
            /\ Len(SubSeq(h, n + 1, l)) = IF n + 1 <= l THEN l - (n + 1) + 1 ELSE 0
            /\ \A i \in 1..l - (n + 1) + 1 : SubSeq(h, n + 1, l)[i] = h[(n + 1) + i - 1]
        BY ONLY <4>2, <4>3, SubSeqProperties
      <4>5. /\ SubSeq(h, n + 1, l) \in Seq(Octets)
            /\ Len(SubSeq(h, n + 1, l)) = l - n
            /\ \A i \in 1..(l - n) : SubSeq(h, n + 1, l)[i] = h[n + i]
        BY ONLY <4>1, <4>2, <4>4
      <4> QED
        BY ONLY <3>1, <4>5
    <3>4. tail = <<u>> \o t
      BY ONLY <1>2, <1>3, <1>4, <2>2, <3>1, <1>0
    <3>5. <<u>> \in Seq(Seq(Octets)) /\ Len(<<u>>) = 1 /\ <<u>>[1] = u
      BY ONLY <3>3
    <3>6. tail \in Seq(Seq(Octets)) /\ Len(tail) = B /\ tail[1] = u /\ \A j \in 1..B : j # 1 => tail[j] = bufs[j]
      <4>1. /\ tail \in Seq(Seq(Octets)) /\ Len(tail) = 1 + (B - 1)
            /\ \A j \in 1..(1 + (B - 1)) : tail[j] = IF j <= 1 THEN <<u>>[j] ELSE t[j - 1]
        BY ONLY <1>4, <3>4, <3>5, Concat
      <4>2. \A j \in 1..B : /\ j \in 1..(1 + (B - 1))
                           /\ j # 1 => ~(j <= 1) /\ j - 1 \in 1..(B - 1) /\ (j - 1) + 1 = j
        BY ONLY <1>1
      <4>3. 1 \in 1..(1 + (B - 1)) /\ 1 <= 1 /\ 1 + (B - 1) = B
        BY ONLY <1>1
      <4> QED
        BY ONLY <1>4, <3>5, <4>1, <4>2, <4>3
    <3> DEFINE cut2 == [j \in Nat |-> IF j = 1 THEN p + n ELSE cut[j]]
    <3>7. cut2 \in [Nat -> Nat] /\ cut2[1] = p + n /\ \A j \in Nat : j # 1 => cut2[j] = cut[j]
      <4>1. p + n \in Nat
        BY ONLY <1>7, <1>9
      <4> QED
        BY ONLY <1>6, <4>1
    <3> HIDE DEF cut2
    <3>8. cut2[B + 1] = cut[B + 1]
      <4>1. B + 1 \in Nat /\ B + 1 # 1
        BY ONLY <1>1
      <4> QED
        BY ONLY <3>7, <4>1
    <3>9. \A j \in 1..B : /\ cut2[j + 1] = cut2[j] + Len(tail[j])
                         /\ \A i \in 1..Len(tail[j]) : tail[j][i] = S[cut2[j] + i]
      <4> SUFFICES ASSUME NEW j, j \in 1..B
                   PROVE  /\ cut2[j + 1] = cut2[j] + Len(tail[j])
                          /\ \A i \in 1..Len(tail[j]) : tail[j][i] = S[cut2[j] + i]
        OBVIOUS
      <4>1. CASE j = 1
        <5>1. cut2[2] = cut[2]
          BY ONLY <3>7
        <5>2. p + l = (p + n) + (l - n)
          BY ONLY <1>3, <1>7, <1>9
        <5>3. \A i \in 1..(l - n) : n + i \in 1..l /\ p + (n + i) = (p + n) + i
          BY ONLY <1>3, <1>7, <1>9
        <5>4. \A i \in 1..(l - n) : u[i] = S[(p + n) + i]
          BY ONLY <1>8, <3>3, <5>3
        <5> QED
          <6>1. cut2[j + 1] = p + l /\ cut2[j] = p + n /\ tail[j] = u
            BY ONLY <1>8, <3>6, <3>7, <4>1, <5>1, 1 + 1 = 2
          <6> QED
            BY ONLY <3>3, <5>2, <5>4, <6>1
      <4>2. CASE j # 1
        <5>1. j \in Nat /\ j + 1 \in Nat /\ j + 1 # 1
          BY ONLY <1>1, j \in 1..B
        <5>2. cut2[j + 1] = cut[j + 1] /\ cut2[j] = cut[j] /\ tail[j] = bufs[j]
          BY ONLY <3>6, <3>7, <4>2, <5>1, j \in 1..B
        <5> QED
          BY ONLY <1>5, <5>2, j \in 1..B
      <4> QED
        BY ONLY <4>1, <4>2
    <3>10. \A j \in 1..(B + 1) : cut2[j] <= cut2[B + 1]
      <4> SUFFICES ASSUME NEW j, j \in 1..(B + 1) PROVE cut2[j] <= cut2[B + 1]
        OBVIOUS
      <4>1. j \in Nat
        BY ONLY <1>1, j \in 1..(B + 1)
      <4> QED
        BY ONLY <1>5, <1>9, <3>7, <3>8, <4>1, j \in 1..(B + 1)
    <3>11. Cuts(tail, S, cut2)
      BY ONLY <3>6, <3>9, <3>10 DEF Cuts
    <3>12. Ends(bufs, cut, tail, cut2)
      <4> SUFFICES ASSUME NEW j, j \in 1..B
                   PROVE  /\ cut2[j + 1] = cut[j + 1]
                          /\ (cut2[j] = cut[j] /\ tail[j] = bufs[j]) \/ cut2[j] > cut[j]
        BY <1>1, <3>6 DEF Ends
      <4>1. j \in Nat /\ j + 1 \in Nat /\ j + 1 # 1
        BY ONLY <1>1, j \in 1..B
      <4>2. j = 1 => cut2[j] > cut[j]
        BY ONLY <1>7, <1>9, <3>7
      <4> QED
        BY ONLY <3>6, <3>7, <4>1, <4>2, j \in 1..B
    <3> QED
      BY ONLY <3>6, <3>7, <3>8, <3>11, <3>12
  <2> QED
    BY ONLY <2>1, <2>2
<1>13. \E cut2 \in [Nat -> Nat] : /\ Spans(tail, S, cut2, cut[1] + n, cut[Len(bufs) + 1])
                                 /\ Ends(bufs, cut, tail, cut2)
  BY ONLY <1>1, <1>7, <1>12 DEF Spans
<1>14. piece \in Seq(Octets) /\ Len(piece) = n /\ \A i \in 1..n : piece[i] = S[cut[1] + i]
  BY ONLY <1>2, <1>7, <1>10, <1>11, piece = SubSeq(Head(bufs), 1, n)
<1>15. tail \in Seq(Seq(Octets)) /\ cut[1] + n <= cut[Len(bufs) + 1]
  BY ONLY <1>1, <1>7, <1>9, <1>12
<1> QED
  BY ONLY <1>13, <1>14, <1>15 DEF Taken
-----------------------------------------------------------------------------
(* The steps. *)

\* The beginning of a sequence.
LEMMA Beginning ==
  ASSUME NEW T, NEW s, s \in Seq(T), NEW n, n \in 0..Len(s)
  PROVE  /\ SubSeq(s, 1, n) \in Seq(T) /\ Len(SubSeq(s, 1, n)) = n
         /\ \A i \in 1..n : SubSeq(s, 1, n)[i] = s[i]
  BY ONLY s \in Seq(T), n \in 0..Len(s), SubSeqProperties

\* Two sequences with the same elements.
LEMMA SameOctets ==
  ASSUME NEW T, NEW s, s \in Seq(T), NEW u, u \in Seq(T), Len(s) = Len(u),
  \A i \in 1..Len(s) : s[i] = u[i]
  PROVE  s = u
  BY ONLY s \in Seq(T), u \in Seq(T), Len(s) = Len(u), \A i \in 1..Len(s) : s[i] = u[i]

\* Messages begin one behind the other.
LEMMA Ordered ==
  ASSUME NEW ch, NEW all, all \in Seq(Message), NEW S, NEW start, start \in [Nat -> Nat],
  Laid(ch, all, S, start),
         NEW j, j \in 1..(Len(all) + 1), NEW k, k \in 1..(Len(all) + 1)
  PROVE  /\ start[j] \in Nat /\ start[k] \in Nat /\ j \in Nat /\ k \in Nat
         /\ j < k => start[j] < start[k]
         /\ j <= k => start[j] <= start[k]
         /\ start[j] < start[k] => j < k
<1>1. PICK L : L \in Nat /\ L = Len(all)
  <2>1. Len(all) \in Nat
    BY ONLY all \in Seq(Message)
  <2> QED
    BY ONLY <2>1
<1>2. j \in Nat /\ k \in Nat
  BY ONLY <1>1, j \in 1..(Len(all) + 1), k \in 1..(Len(all) + 1)
<1>3. start[j] \in Nat /\ start[k] \in Nat
  BY ONLY <1>2, start \in [Nat -> Nat]
<1>4. (j < k => start[j] < start[k]) /\ (k < j => start[k] < start[j])
  BY ONLY Laid(ch, all, S, start), j \in 1..(Len(all) + 1), k \in 1..(Len(all) + 1) DEF Laid
<1>5. j < k \/ j = k \/ k < j
  BY ONLY <1>2
<1> QED
  BY ONLY <1>2, <1>3, <1>4, <1>5

\* Where the reader is does not change when something is put behind it.
LEMMA StaysAt ==
  ASSUME WireTypes, ended = FALSE, NEW S, NEW start, start \in [Nat -> Nat], NEW p, p \in Nat,
         Position(messages, S, start, p),
         NEW al, al \in Seq(Message), NEW S2, NEW start2, NEW L, L \in Nat, L = Len(messages),
         L <= Len(al), Same(al, messages, 1..L), Same(start2, start, 1..(L + 1)), Same(S2, S,
         0..p),
         UNCHANGED <<channel, reader, received>>, messages' \in Seq(Message),
         L <= Len(messages'), Same(messages', messages, 1..L)
  PROVE  Position(al, S2, start2, p)'
<1>1. PICK r : r \in Nat /\ r = Len(received)
  <2>1. received \in Seq(Message)
    BY ONLY WireTypes DEF WireTypes
  <2>2. Len(received) \in Nat
    BY ONLY <2>1
  <2> QED
    BY ONLY <2>2
<1>2. r <= L /\ r + 1 \in 1..(L + 1) /\ start2[r + 1] = start[r + 1]
  <2>1. r <= L
    BY ONLY <1>1, L = Len(messages), Position(messages, S, start, p) DEF Position
  <2>2. r + 1 \in 1..(L + 1)
    BY ONLY <1>1, <2>1, L \in Nat
  <2> QED
    BY ONLY <2>1, <2>2, Same(start2, start, 1..(L + 1)) DEF Same
<1>3. PICK b : b \in Nat /\ b = start[r + 1] /\ b = start2[r + 1]
  <2>1. r + 1 \in Nat
    BY ONLY <1>1
  <2>2. start[r + 1] \in Nat
    BY ONLY <2>1, start \in [Nat -> Nat]
  <2> QED
    BY ONLY <1>2, <2>2
<1>4. PICK h : h \in Nat /\ h = HL(channel)
  BY ONLY HL(channel) \in {2, 4} DEF HL
<1>5. PICK g : g \in Nat /\ g = Len(reader.got)
  <2>1. reader.got \in Seq(Octets)
    BY ONLY WireTypes DEF WireTypes, ReaderState
  <2>2. Len(reader.got) \in Nat
    BY ONLY <2>1
  <2> QED
    BY ONLY <2>2
<1>6. channel' = channel /\ reader' = reader /\ received' = received
  BY ONLY UNCHANGED <<channel, reader, received>>
<1>7. reader.part = "header" => InHeader(S2, b, p)'
  <2> SUFFICES ASSUME reader.part = "header" PROVE InHeader(S2, b, p)'
    OBVIOUS
  <2>1. InHeader(S, b, p)
    BY ONLY <1>1, <1>3, reader.part = "header", Position(messages, S, start, p) DEF Position
  <2>2. p = b + g
    BY ONLY <1>5, <2>1 DEF InHeader
  <2>3. \A i \in 1..g : b + i \in 0..p
    BY ONLY <1>3, <1>5, <2>2
  <2>4. \A i \in 1..g : reader.got[i] = S2[b + i]
    BY ONLY <1>5, <2>1, <2>3, Same(S2, S, 0..p) DEF InHeader, Same
  <2> QED
    BY ONLY <1>5, <1>6, <2>1, <2>4 DEF InHeader, Once
<1>8. reader.part = "body" => r < L /\ InBody(al[r + 1], S2, b, p)'
  <2> SUFFICES ASSUME reader.part = "body" PROVE r < L /\ InBody(al[r + 1], S2, b, p)'
    OBVIOUS
  <2>1. r < L /\ InBody(messages[r + 1], S, b, p)
    BY ONLY <1>1, <1>3, L = Len(messages), reader.part = "body",
       Position(messages, S, start, p) DEF Position
  <2>2. al[r + 1] = messages[r + 1]
    <3>1. r + 1 \in 1..L
      BY ONLY <1>1, <2>1, L \in Nat
    <3> QED
      BY ONLY <3>1, Same(al, messages, 1..L) DEF Same
  <2>3. p = b + h + g
    BY ONLY <1>4, <1>5, <2>1 DEF InBody
  <2>4. \A i \in 1..g : b + h + i \in 0..p
    BY ONLY <1>3, <1>4, <1>5, <2>3
  <2>5. \A i \in 1..g : reader.got[i] = S2[b + h + i]
    BY ONLY <1>4, <1>5, <2>1, <2>4, Same(S2, S, 0..p) DEF InBody, Same
  <2> QED
    BY ONLY <1>4, <1>5, <1>6, <2>1, <2>2, <2>5 DEF InBody
<1>9. reader.part # "eof"
  BY ONLY ended = FALSE, Position(messages, S, start, p) DEF Position
<1>10. r <= Len(messages') /\ \A i \in 1..r : received[i] = messages'[i]
  <2>1. \A i \in 1..r : i \in 1..L
    BY ONLY <1>1, <1>2, L \in Nat
  <2>2. \A i \in 1..r : received[i] = messages[i]
    BY ONLY <1>1, Position(messages, S, start, p) DEF Position
  <2>3. Len(messages') \in Nat
    BY ONLY messages' \in Seq(Message)
  <2> QED
    BY ONLY <1>1, <1>2, <2>1, <2>2, <2>3, L \in Nat, L <= Len(messages'),
       Same(messages', messages, 1..L) DEF Same
<1>11. r < L => r < Len(al)
  <2>1. Len(al) \in Nat
    BY ONLY al \in Seq(Message)
  <2> QED
    BY ONLY <1>1, <2>1, L \in Nat, L <= Len(al)
<1> QED
  BY ONLY <1>1, <1>3, <1>6, <1>7, <1>8, <1>9, <1>10, <1>11 DEF Position

\* A message, or the first octets of one, is written.
LEMMA Writes ==
  ASSUME WireTypes, ended = FALSE, shifted = FALSE, shifted' = FALSE,
         NEW all, all \in Seq(Message), NEW S, S \in [Nat -> Octets], NEW start,
         start \in [Nat -> Nat],
         NEW cut, cut \in [Nat -> Nat], Layout(all, S, start, cut),
         NEW m, m \in Message, Len(m.body) < Width, channel # "control" => m.cmd = 0,
         NEW o, o \in Seq(Octets), Len(o) \in 1..Size(channel, m),
         \A i \in 1..Len(o) : o[i] = OctetOf(channel, m, i),
         channel # "control" => Len(o) = Size(channel, m) \/ Len(o) % MaxFrameSize = 0,
         buffers' = buffers \o frames(o), UNCHANGED <<channel, reader, received>>,
         \/ Len(o) = Size(channel, m) /\ messages' = Append(messages, m) /\ ended' \in BOOLEAN
         \/ Len(o) < Size(channel, m) /\ messages' = messages /\ ended' = TRUE
  PROVE  /\ WireTypes'
         /\ \E all2 \in Seq(Message), S2 \in [Nat -> Octets], start2, cut2 \in [Nat -> Nat] :
              Layout(all2, S2, start2, cut2)'
<1>0. messages \in Seq(Message) /\ buffers \in Seq(Seq(Octets)) /\ received \in Seq(Message)
      /\ reader.got \in Seq(Octets)
  BY ONLY WireTypes DEF WireTypes, ReaderState
<1>1. PICK L : L \in Nat /\ L = Len(messages) /\ (messages = <<>> <=> L = 0)
  <2>1. Len(messages) \in Nat /\ (messages = <<>> <=> Len(messages) = 0)
    BY ONLY <1>0, EmptySeq
  <2> QED
    BY ONLY <2>1
<1>2. PICK n : n \in Nat /\ n > 0 /\ n = Len(o) /\ n <= Size(channel, m)
  <2>1. Size(channel, m) \in Nat
    BY ONLY m \in Message, SizePositive
  <2> QED
    BY ONLY <2>1, Len(o) \in 1..Size(channel, m)
<1>3. PICK z : z \in Nat /\ z > 1 /\ z = Size(channel, m)
  <2>1. HL(channel) \in {2, 4} /\ Len(m.body) \in Nat
    BY ONLY m \in Message DEF HL, Message
  <2> QED
    BY ONLY <2>1 DEF Size
<1>4. all = messages /\ cut[Len(buffers) + 1] = start[L + 1]
  BY ONLY <1>1, ended = FALSE, shifted = FALSE, Layout(all, S, start, cut) DEF Layout, Written
<1>5. channel \in Channels
  BY ONLY WireTypes DEF WireTypes
<1>6. \A i \in 1..z : OctetOf(channel, m, i) \in Octets
  <2>1. encode(m) \in Seq(Octets) /\ Len(encode(m)) = z /\ \A i \in 1..z : encode(m)[i] = OctetOf(channel, m, i)
    BY ONLY <1>3, <1>5, m \in Message, Encoded
  <2>2. \A i \in 1..z : encode(m)[i] \in Octets
    BY ONLY <2>1
  <2> QED
    BY ONLY <2>1, <2>2
<1>7. PICK S2, start2 :
        /\ S2 \in [Nat -> Octets] /\ start2 \in [Nat -> Nat]
        /\ Laid(channel, Append(messages, m), S2, start2)
        /\ \A k \in 1..(L + 1) : start2[k] = start[k]
        /\ \A x \in Nat : x <= start[L + 1] => S2[x] = S[x]
        /\ \A i \in 1..z : S2[start[L + 1] + i] = OctetOf(channel, m, i)
        /\ start2[L + 2] = start[L + 1] + z
  <2>1. Laid(channel, messages, S, start)
    BY ONLY <1>4, Layout(all, S, start, cut) DEF Layout
  <2>2. \A i \in 1..Size(channel, m) : OctetOf(channel, m, i) \in Octets
    BY ONLY <1>3, <1>6
  <2>3. PICK Y \in [Nat -> Octets], y \in [Nat -> Nat] : LaidOn(channel, messages, S, start, m, Y, y)
    BY ONLY <1>0, <1>5, <2>1, <2>2, S \in [Nat -> Octets], start \in [Nat -> Nat],
       m \in Message, LaysOn
  <2>4. /\ Laid(channel, Append(messages, m), Y, y)
        /\ \A k \in 1..(L + 1) : y[k] = start[k]
        /\ \A x \in Nat : x <= start[L + 1] => Y[x] = S[x]
        /\ \A i \in 1..z : Y[start[L + 1] + i] = OctetOf(channel, m, i)
        /\ y[L + 2] = start[L + 1] + z
    BY ONLY <1>1, <1>3, <2>3 DEF LaidOn
  <2>5. Y \in [Nat -> Octets] /\ y \in [Nat -> Nat]
    OBVIOUS
  <2> QED
    BY ONLY <2>4, <2>5
<1>8. PICK fr : fr = frames(o)
  OBVIOUS
<1>9. PICK c : /\ c \in [Nat -> Nat] /\ Tile(fr, o, c) /\ fr \in Seq(Seq(Octets)) /\ Len(fr) > 0
               /\ channel # "control" => Len(fr[1]) > 1
  <2>1. /\ fr \in Seq(Seq(Octets)) /\ Len(fr) > 0
        /\ channel # "control" /\ (n > 1 \/ n % MaxFrameSize = 0) => Len(fr[1]) > 1
        /\ \E c \in [Nat -> Nat] : Tile(fr, o, c)
    BY ONLY <1>2, <1>5, <1>8, o \in Seq(Octets), Framed
  <2>2. channel # "control" => n > 1 \/ n % MaxFrameSize = 0
    BY ONLY <1>2, <1>3, channel # "control" => Len(o) = Size(channel, m) \/ Len(o) % MaxFrameSize = 0
  <2> QED
    BY ONLY <2>1, <2>2
<1>10. PICK cut2 : /\ cut2 \in [Nat -> Nat] /\ Cuts(buffers \o fr, S2, cut2) /\ cut2[1] = cut[1]
                   /\ cut2[Len(buffers \o fr) + 1] = start[L + 1] + n
                   /\ CutOn(buffers, fr, S2, cut, n, cut2)
  <2>1. \A i \in 1..Len(o) : S2[start[L + 1] + i] = o[i]
    <3>1. \A i \in 1..n : i \in 1..z
      BY ONLY <1>2, <1>3
    <3> QED
      BY ONLY <1>2, <1>7, <3>1, \A i \in 1..Len(o) : o[i] = OctetOf(channel, m, i)
  <2>2. buffers \in Seq(Seq(Octets)) /\ Cuts(buffers, S, cut)
    BY ONLY WireTypes, Layout(all, S, start, cut) DEF Layout, WireTypes
  <2>3. \A x \in Nat : x <= cut[Len(buffers) + 1] => S2[x] = S[x]
    BY ONLY <1>4, <1>7
  <2>4. \A i \in 1..Len(o) : S2[cut[Len(buffers) + 1] + i] = o[i]
    BY ONLY <1>4, <2>1
  <2>5. PICK y \in [Nat -> Nat] : CutOn(buffers, fr, S2, cut, Len(o), y)
    BY ONLY <1>9, <2>2, <2>3, <2>4, o \in Seq(Octets), cut \in [Nat -> Nat], CutsOn
  <2>6. /\ Cuts(buffers \o fr, S2, y) /\ y[1] = cut[1]
        /\ y[Len(buffers \o fr) + 1] = start[L + 1] + n
        /\ CutOn(buffers, fr, S2, cut, n, y)
    BY ONLY <1>2, <1>4, <2>5 DEF CutOn
  <2>7. y \in [Nat -> Nat]
    OBVIOUS
  <2> QED
    BY ONLY <2>6, <2>7
<1>11. PICK al : /\ al = Append(messages, m) /\ al \in Seq(Message) /\ Len(al) = L + 1
                 /\ al[L + 1] = m /\ \A k \in 1..L : al[k] = messages[k]
  <2>1. /\ Append(messages, m) \in Seq(Message) /\ Len(Append(messages, m)) = L + 1
        /\ Append(messages, m)[L + 1] = m
        /\ \A k \in 1..L : Append(messages, m)[k] = messages[k]
    BY ONLY <1>0, <1>1, m \in Message, AppendProperties
  <2> QED
    BY ONLY <2>1
<1>20. PICK bf : bf = buffers \o fr
  OBVIOUS
<1>12. /\ bf = buffers \o fr /\ bf \in Seq(Seq(Octets)) /\ bf # <<>>
       /\ bf[1] = IF buffers = <<>> THEN fr[1] ELSE buffers[1]
  <2>1. PICK B : B \in Nat /\ B = Len(buffers) /\ (buffers = <<>> <=> B = 0)
    <3>1. Len(buffers) \in Nat /\ (buffers = <<>> <=> Len(buffers) = 0)
      BY ONLY <1>0, EmptySeq
    <3> QED
      BY ONLY <3>1
  <2>2. PICK F : F \in Nat /\ F = Len(fr) /\ F > 0
    <3>1. Len(fr) \in Nat /\ Len(fr) > 0
      BY ONLY <1>9
    <3> QED
      BY ONLY <3>1
  <2>3. /\ buffers \o fr \in Seq(Seq(Octets)) /\ Len(buffers \o fr) = B + F
        /\ \A i \in 1..(B + F) : (buffers \o fr)[i] = IF i <= B THEN buffers[i] ELSE fr[i - B]
    BY ONLY <1>0, <1>9, <2>1, <2>2, Concat
  <2>4. B + F > 0 /\ 1 \in 1..(B + F) /\ (B = 0 => ~(1 <= B) /\ 1 - B = 1) /\ (B # 0 => 1 <= B)
    BY ONLY <2>1, <2>2
  <2>5. (buffers \o fr)[1] = IF buffers = <<>> THEN fr[1] ELSE buffers[1]
    BY ONLY <2>1, <2>3, <2>4
  <2>6. buffers \o fr # <<>>
    <3>1. Len(buffers \o fr) > 0
      BY ONLY <2>3, <2>4
    <3> QED
      BY ONLY <2>3, <3>1, EmptySeq
  <2> QED
    BY ONLY <1>20, <2>3, <2>5, <2>6
<1>13. bf = buffers' /\ channel' = channel /\ reader' = reader /\ received' = received
  BY ONLY <1>8, <1>12, buffers' = buffers \o frames(o), UNCHANGED <<channel, reader, received>>
<1>14. /\ L <= Len(messages') /\ messages' \in Seq(Message) /\ ended' \in BOOLEAN
       /\ \A k \in 1..L : messages'[k] = messages[k]
  <2>1. L <= L /\ L <= L + 1
    BY ONLY <1>1
  <2>2. CASE messages' = Append(messages, m) /\ ended' \in BOOLEAN
    BY ONLY <1>11, <2>1, <2>2
  <2>3. CASE messages' = messages /\ ended' = TRUE
    BY ONLY <1>0, <1>1, <2>1, <2>3
  <2> QED
    BY ONLY <2>2, <2>3,
         \/ Len(o) = Size(channel, m) /\ messages' = Append(messages, m) /\ ended' \in BOOLEAN
         \/ Len(o) < Size(channel, m) /\ messages' = messages /\ ended' = TRUE
<1>15. WireTypes'
  BY ONLY <1>12, <1>13, <1>14, WireTypes, shifted' = FALSE DEF WireTypes
<1>16. Fits(channel, al)
  <2>1. Fits(channel, messages)
    BY ONLY <1>4, Layout(all, S, start, cut) DEF Layout
  <2>2. \A k \in 1..(L + 1) : k = L + 1 \/ k \in 1..L
    BY ONLY <1>1
  <2> QED
    BY ONLY <1>1, <1>11, <2>1, <2>2, Len(m.body) < Width, channel # "control" => m.cmd = 0 DEF Fits
<1>21. Starts(channel, al, start2, bf, cut2)
  <2>1. PICK w : w \in Nat /\ w = start[L + 1] /\ w = cut[Len(buffers) + 1]
    <3>1. L + 1 \in Nat
      BY ONLY <1>1
    <3>2. start[L + 1] \in Nat
      BY ONLY <3>1, start \in [Nat -> Nat]
    <3> QED
      BY ONLY <1>4, <3>2
  <2>2. \A k \in 1..L : start[k] < w
    <3>1. \A k \in 1..L : k \in 1..(L + 1) /\ L + 1 \in 1..(L + 1) /\ k < L + 1
      BY ONLY <1>1
    <3>2. Laid(channel, messages, S, start)
      BY ONLY <1>4, Layout(all, S, start, cut) DEF Layout
    <3> QED
      BY ONLY <1>1, <2>1, <3>1, <3>2 DEF Laid
  <2>3. Cuts(buffers, S, cut) /\ Starts(channel, messages, start, buffers, cut)
    BY ONLY <1>4, Layout(all, S, start, cut) DEF Layout
  <2>4. /\ \A k \in 1..Len(messages) : start2[k] = start[k] /\ start[k] < w
        /\ Len(al) = Len(messages) + 1 /\ start2[Len(al)] = w
    <3>1. \A k \in 1..L : k \in 1..(L + 1)
      BY ONLY <1>1
    <3>2. L + 1 \in 1..(L + 1)
      BY ONLY <1>1
    <3> QED
      BY ONLY <1>1, <1>7, <1>11, <2>1, <2>2, <3>1, <3>2
  <2>5. Same(start2, start, 1..Len(messages)) /\ Before(messages, start, w)
    BY ONLY <2>4 DEF Same, Before
  <2>6. AtMostOne(channel, messages, al, start2, fr, w)
    BY ONLY <1>9, <2>4 DEF AtMostOne
  <2>7. /\ buffers \in Seq(Seq(Octets)) /\ fr \in Seq(Seq(Octets)) /\ n \in Nat /\ messages \in Seq(Message)
        /\ cut2 \in [Nat -> Nat] /\ CutOn(buffers, fr, S2, cut, n, cut2) /\ w = cut[Len(buffers) + 1]
    BY ONLY <1>0, <1>2, <1>9, <1>10, <2>1
  <2>8. Starts(channel, al, start2, buffers \o fr, cut2)
    BY ONLY <2>3, <2>5, <2>6, <2>7, start \in [Nat -> Nat], cut \in [Nat -> Nat], StartsOn
  <2> QED
    BY ONLY <1>12, <2>8
<1>17. Written(al, start2, cut2[Len(bf) + 1])'
  <2>1. cut2[Len(bf) + 1] = start2[L + 1] + n /\ start2[L + 2] = start2[L + 1] + z /\ start2[L + 1] \in Nat
    <3>1. L + 1 \in 1..(L + 1) /\ L + 1 \in Nat
      BY ONLY <1>1
    <3>2. start2[L + 1] = start[L + 1] /\ start2[L + 1] \in Nat
      BY ONLY <1>7, <3>1
    <3> QED
      BY ONLY <1>7, <1>10, <1>12, <3>2
  <2>2. CASE n = z /\ messages' = al
    <3>1. cut2[Len(bf) + 1] = start2[(L + 1) + 1]
      BY ONLY <1>1, <2>1, <2>2
    <3> QED
      BY ONLY <1>11, <2>2, <3>1 DEF Written
  <2>3. CASE n < z /\ messages' = messages /\ ended' = TRUE
    <3>1. start2[L + 1] < cut2[Len(bf) + 1] /\ cut2[Len(bf) + 1] < start2[(L + 1) + 1]
      BY ONLY <1>1, <1>2, <1>3, <2>1, <2>3
    <3> QED
      BY ONLY <1>1, <1>11, <2>3, <3>1 DEF Written
  <2> QED
    BY ONLY <1>2, <1>3, <1>11, <2>2, <2>3,
         \/ Len(o) = Size(channel, m) /\ messages' = Append(messages, m) /\ ended' \in BOOLEAN
         \/ Len(o) < Size(channel, m) /\ messages' = messages /\ ended' = TRUE
<1>18. Position(al, S2, start2, cut2[1])'
  <2>1. Position(messages, S, start, cut[1]) /\ Cuts(buffers, S, cut)
    BY ONLY <1>4, Layout(all, S, start, cut) DEF Layout
  <2>2. PICK p : p \in Nat /\ p = cut[1] /\ p <= start[L + 1] /\ cut2[1] = p
    <3>1. Len(buffers) \in Nat
      BY ONLY WireTypes DEF WireTypes
    <3>2. 1 \in 1..(Len(buffers) + 1)
      BY ONLY <3>1
    <3>3. cut[1] <= start[L + 1]
      BY ONLY <1>4, <2>1, <3>2 DEF Cuts
    <3> QED
      BY ONLY <1>10, <3>3, cut \in [Nat -> Nat]
  <2>3. Same(S2, S, 0..p)
    <3>1. start[L + 1] \in Nat
      BY ONLY <1>1, start \in [Nat -> Nat]
    <3>2. \A x \in 0..p : x \in Nat /\ x <= start[L + 1]
      BY ONLY <2>2, <3>1
    <3> QED
      BY ONLY <1>7, <3>2 DEF Same
  <2>4. L <= Len(al) /\ UNCHANGED <<channel, reader, received>>
    BY ONLY <1>1, <1>11, <1>13
  <2>6. p \in Nat /\ Position(messages, S, start, p) /\ al \in Seq(Message) /\ L \in Nat /\ L = Len(messages)
    BY ONLY <1>1, <1>11, <2>1, <2>2
  <2>7. /\ Same(al, messages, 1..L) /\ Same(start2, start, 1..(L + 1))
        /\ Same(messages', messages, 1..L) /\ L <= Len(messages') /\ messages' \in Seq(Message)
    BY ONLY <1>7, <1>11, <1>14 DEF Same
  <2>5. Position(al, S2, start2, p)'
    BY ONLY <2>3, <2>4, <2>6, <2>7, WireTypes, ended = FALSE, start \in [Nat -> Nat], StaysAt
  <2> QED
    BY ONLY <2>2, <2>5
<1>19. Layout(al, S2, start2, cut2)'
  BY ONLY <1>7, <1>10, <1>11, <1>12, <1>13, <1>16, <1>17, <1>18, <1>21 DEF Layout
<1> QED
  BY ONLY <1>7, <1>10, <1>11, <1>15, <1>19

\* What is no message is written behind the messages.
LEMMA Shifts ==
  ASSUME WireTypes, ended = FALSE, NEW all, all \in Seq(Message), NEW S, S \in [Nat -> Octets],
         NEW start, start \in [Nat -> Nat], NEW cut, cut \in [Nat -> Nat],
         Layout(all, S, start, cut), NEW o, o \in Seq(Octets), Len(o) > 0,
         buffers' = buffers \o frames(o), UNCHANGED <<channel, reader, received, messages>>,
         shifted' = TRUE, ended' \in BOOLEAN
  PROVE  /\ WireTypes'
         /\ \E all2 \in Seq(Message), S2 \in [Nat -> Octets], start2, cut2 \in [Nat -> Nat] :
              Layout(all2, S2, start2, cut2)'
<1>0. messages \in Seq(Message) /\ buffers \in Seq(Seq(Octets)) /\ channel \in Channels
  BY ONLY WireTypes DEF WireTypes
<1>1. PICK L : L \in Nat /\ L = Len(messages)
  <2>1. Len(messages) \in Nat
    BY ONLY <1>0
  <2> QED
    BY ONLY <2>1
<1>2. PICK n : n \in Nat /\ n > 0 /\ n = Len(o)
  <2>1. Len(o) \in Nat
    BY ONLY o \in Seq(Octets)
  <2> QED
    BY ONLY <2>1, Len(o) > 0
<1>3. PICK B : B \in Nat /\ B = Len(buffers)
  <2>1. Len(buffers) \in Nat
    BY ONLY <1>0
  <2> QED
    BY ONLY <2>1
<1>4. PICK w : w \in Nat /\ w = cut[Len(buffers) + 1]
  <2>1. B + 1 \in Nat
    BY ONLY <1>3
  <2>2. cut[B + 1] \in Nat
    BY ONLY <2>1, cut \in [Nat -> Nat]
  <2> QED
    BY ONLY <1>3, <2>2
<1>5. PICK e : e \in Nat /\ e = start[L + 1]
  <2>1. L + 1 \in Nat
    BY ONLY <1>1
  <2>2. start[L + 1] \in Nat
    BY ONLY <2>1, start \in [Nat -> Nat]
  <2> QED
    BY ONLY <2>2
<1>6. all = messages
  BY ONLY ended = FALSE, Layout(all, S, start, cut) DEF Layout, Written
<1>22. /\ w \in Nat /\ e \in Nat /\ n \in Nat /\ n > 0 /\ L \in Nat /\ B \in Nat
       /\ e <= w /\ e <= w + n
  <2>1. Written(all, start, w)
    BY ONLY <1>4, Layout(all, S, start, cut) DEF Layout
  <2>2. w = start[L + 1] \/ w >= start[L + 1]
    BY ONLY <1>1, <2>1, ended = FALSE DEF Written
  <2>3. w = e \/ w >= e
    BY ONLY <1>5, <2>2
  <2>4. w \in Nat /\ e \in Nat /\ n \in Nat /\ n > 0 /\ L \in Nat /\ B \in Nat
    BY ONLY <1>1, <1>2, <1>3, <1>4, <1>5
  <2> QED
    BY ONLY <2>3, <2>4
<1>7. /\ Laid(channel, messages, S, start) /\ Fits(channel, messages) /\ Cuts(buffers, S, cut)
      /\ Starts(channel, messages, start, buffers, cut) /\ Position(messages, S, start, cut[1])
  BY ONLY <1>6, Layout(all, S, start, cut) DEF Layout
<1>8. PICK S2 : /\ S2 \in [Nat -> Octets] /\ (\A x \in Nat : x <= w => S2[x] = S[x])
                 /\ \A i \in 1..n : S2[w + i] = o[i]
  <2> DEFINE Y == [x \in Nat |-> IF x > w /\ x <= w + n THEN o[x - w] ELSE S[x]]
  <2>1. \A x \in Nat : x > w /\ x <= w + n => x - w \in 1..n
    BY ONLY <1>2, <1>4
  <2>2. \A i \in 1..n : o[i] \in Octets
    BY ONLY <1>2, o \in Seq(Octets)
  <2>3. \A i \in 1..n : w + i \in Nat /\ w + i > w /\ w + i <= w + n /\ (w + i) - w = i
    BY ONLY <1>2, <1>4
  <2>4. \A x \in Nat : x <= w => ~(x > w)
    BY ONLY <1>4
  <2>5. /\ Y \in [Nat -> Octets] /\ (\A x \in Nat : x <= w => Y[x] = S[x])
        /\ \A i \in 1..n : Y[w + i] = o[i]
    BY ONLY <2>1, <2>2, <2>3, <2>4, S \in [Nat -> Octets]
  <2> HIDE DEF Y
  <2> QED
    BY ONLY <2>5
<1>9. PICK fr : fr = frames(o)
  OBVIOUS
<1>10. PICK c : c \in [Nat -> Nat] /\ Tile(fr, o, c) /\ fr \in Seq(Seq(Octets))
  <2>1. fr \in Seq(Seq(Octets)) /\ \E c \in [Nat -> Nat] : Tile(fr, o, c)
    BY ONLY <1>0, <1>9, o \in Seq(Octets), Len(o) > 0, Framed
  <2> QED
    BY ONLY <2>1
<1>11. PICK cut2 \in [Nat -> Nat] : CutOn(buffers, fr, S2, cut, n, cut2)
  <2>1. /\ \A x \in Nat : x <= cut[Len(buffers) + 1] => S2[x] = S[x]
        /\ \A i \in 1..Len(o) : S2[cut[Len(buffers) + 1] + i] = o[i]
    BY ONLY <1>2, <1>4, <1>8
  <2>2. \E y \in [Nat -> Nat] : CutOn(buffers, fr, S2, cut, Len(o), y)
    BY ONLY <1>0, <1>7, <1>10, <2>1, o \in Seq(Octets), cut \in [Nat -> Nat], CutsOn
  <2> QED
    BY ONLY <1>2, <2>2
<1>12. PICK bf : bf = buffers \o fr /\ bf = buffers'
  BY ONLY <1>9, buffers' = buffers \o frames(o)
<1>13. bf \in Seq(Seq(Octets)) /\ Cuts(bf, S2, cut2) /\ cut2[1] = cut[1] /\ cut2[Len(bf) + 1] = w + n
  <2>1. bf \in Seq(Seq(Octets))
    BY ONLY <1>0, <1>10, <1>12, Concat
  <2> QED
    BY ONLY <1>4, <1>11, <1>12, <2>1 DEF CutOn
<1>14. \A k \in 1..L : /\ start[k] \in Nat /\ start[k] < e /\ start[k + 1] \in Nat /\ start[k + 1] <= e
  <2> SUFFICES ASSUME NEW k, k \in 1..L
               PROVE  start[k] \in Nat /\ start[k] < e /\ start[k + 1] \in Nat /\ start[k + 1] <= e
    OBVIOUS
  <2>0. L \in Nat
    BY ONLY <1>1
  <2>1. k \in 1..(L + 1) /\ k + 1 \in 1..(L + 1) /\ L + 1 \in 1..(L + 1) /\ k < L + 1 /\ k + 1 <= L + 1
    BY ONLY <2>0, k \in 1..L
  <2>2. start[k] \in Nat /\ (k < L + 1 => start[k] < start[L + 1])
    BY ONLY <1>0, <1>1, <1>7, <2>1, start \in [Nat -> Nat], Ordered
  <2>3. start[k + 1] \in Nat /\ (k + 1 <= L + 1 => start[k + 1] <= start[L + 1])
    BY ONLY <1>0, <1>1, <1>7, <2>1, start \in [Nat -> Nat], Ordered
  <2> QED
    BY ONLY <1>5, <2>1, <2>2, <2>3
<1>15. Laid(channel, messages, S2, start)
  <2>1. ASSUME NEW k, k \in 1..L, NEW i, i \in 1..Size(channel, messages[k])
        PROVE  S2[start[k] + i] = S[start[k] + i]
    <3>1. PICK z : z \in Nat /\ z = Size(channel, messages[k])
      <4>1. messages[k] \in Message
        BY ONLY <1>0, <1>1, k \in 1..L
      <4> QED
        BY ONLY <4>1, SizePositive
    <3>2. start[k + 1] = start[k] + z
      BY ONLY <1>1, <1>7, <3>1, k \in 1..L DEF Laid
    <3>3. start[k] \in Nat /\ start[k + 1] <= e
      BY ONLY <1>14, k \in 1..L
    <3>4. start[k] + i \in Nat /\ start[k] + i <= w
      <4>1. i \in 1..z
        BY ONLY <3>1, i \in 1..Size(channel, messages[k])
      <4>2. start[k] + z <= e
        BY ONLY <3>2, <3>3
      <4>3. z \in Nat /\ start[k] \in Nat
        BY ONLY <3>1, <3>3
      <4> QED
        BY ONLY <1>22, <4>1, <4>2, <4>3
    <3> QED
      BY ONLY <1>8, <3>4
  <2>2. ASSUME NEW k, k \in 1..L
        PROVE  /\ start[k + 1] = start[k] + Size(channel, messages[k])
               /\ \A i \in 1..Size(channel, messages[k]) :
                     S2[start[k] + i] = OctetOf(channel, messages[k], i)
    <3>1. /\ start[k + 1] = start[k] + Size(channel, messages[k])
          /\ \A i \in 1..Size(channel, messages[k]) :
                S[start[k] + i] = OctetOf(channel, messages[k], i)
      BY ONLY <1>1, <1>7, k \in 1..L DEF Laid
    <3> QED
      BY ONLY <2>1, <3>1, k \in 1..L
  <2> QED
    BY ONLY <1>1, <1>7, <2>2 DEF Laid
<1>16. Starts(channel, messages, start, bf, cut2)
  <2>1. Before(messages, start, w)
    <3>1. \A k \in 1..L : start[k] < w
      BY ONLY <1>14, <1>22
    <3> QED
      BY ONLY <1>1, <3>1 DEF Before
  <2>2. Same(start, start, 1..Len(messages)) /\ AtMostOne(channel, messages, messages, start, fr, w)
    BY DEF Same, AtMostOne
  <2> QED
    BY ONLY <1>0, <1>2, <1>4, <1>7, <1>10, <1>11, <1>12, <2>1, <2>2, start \in [Nat -> Nat],
       cut \in [Nat -> Nat], StartsOn
<1>17. channel' = channel /\ reader' = reader /\ received' = received /\ messages' = messages
  BY ONLY UNCHANGED <<channel, reader, received, messages>>
<1>18. Written(messages, start, cut2[Len(bf) + 1])'
  <2>1. w + n >= start[L + 1]
    <3>1. w + n >= e
      BY ONLY <1>22
    <3> QED
      BY ONLY <1>5, <3>1
  <2> QED
    BY ONLY <1>1, <1>13, <1>17, <2>1, shifted' = TRUE DEF Written
<1>19. Position(messages, S2, start, cut2[1])'
  <2>1. PICK p : p \in Nat /\ p = cut[1] /\ p <= w
    <3>1. 1 \in 1..(B + 1)
      BY ONLY <1>3
    <3>2. cut[1] <= w
      BY ONLY <1>3, <1>4, <1>7, <3>1 DEF Cuts
    <3> QED
      BY ONLY <3>2, cut \in [Nat -> Nat]
  <2>2. Same(S2, S, 0..p)
    <3>1. p \in Nat /\ p <= w
      BY ONLY <2>1
    <3>2. \A x \in 0..p : x \in Nat /\ x <= w
      BY ONLY <1>22, <3>1
    <3> QED
      BY ONLY <1>8, <3>2 DEF Same
  <2>3. /\ L <= Len(messages) /\ L <= Len(messages') /\ messages' \in Seq(Message)
        /\ Same(messages, messages, 1..L) /\ Same(messages', messages, 1..L)
        /\ Same(start, start, 1..(L + 1))
    BY ONLY <1>0, <1>1, <1>17 DEF Same
  <2>4. UNCHANGED <<channel, reader, received>>
    BY ONLY <1>17
  <2>5. Position(messages, S2, start, p)'
    BY ONLY <1>0, <1>1, <1>7, <2>1, <2>2, <2>3, <2>4, WireTypes, ended = FALSE,
       start \in [Nat -> Nat], StaysAt
  <2> QED
    BY ONLY <1>13, <2>1, <2>5
<1>20. Layout(messages, S2, start, cut2)'
  BY ONLY <1>7, <1>12, <1>13, <1>15, <1>16, <1>17, <1>18, <1>19 DEF Layout
<1>21. WireTypes'
  BY ONLY <1>12, <1>13, <1>17, WireTypes, shifted' = TRUE, ended' \in BOOLEAN DEF WireTypes
<1> QED
  <2>1. PICK al : al = messages' /\ al \in Seq(Message)
    BY ONLY <1>0, <1>17
  <2>2. Layout(al, S2, start, cut2)'
    BY ONLY <1>20, <2>1
  <2>3. S2 \in [Nat -> Octets] /\ cut2 \in [Nat -> Nat]
    BY ONLY <1>8, <1>11
  <2> QED
    BY ONLY <1>21, <2>1, <2>2, <2>3, start \in [Nat -> Nat]

\* Nothing is written any more, or nothing of a message.
LEMMA Stops ==
  ASSUME WireTypes, ended = FALSE, NEW all, NEW S, NEW start, NEW cut, Layout(all, S, start,
  cut),
         start[Len(all) + 1] \in Nat,
         UNCHANGED <<channel, buffers, reader, received, messages>>,
         ended' \in BOOLEAN, shifted' \in BOOLEAN, shifted => shifted'
  PROVE  WireTypes' /\ Layout(all, S, start, cut)'
<1>1. /\ channel' = channel /\ buffers' = buffers /\ reader' = reader /\ received' = received
      /\ messages' = messages
  BY ONLY UNCHANGED <<channel, buffers, reader, received, messages>>
<1>2. WireTypes'
  BY ONLY <1>1, WireTypes, ended' \in BOOLEAN, shifted' \in BOOLEAN DEF WireTypes
<1>3. Written(all, start, cut[Len(buffers) + 1])'
  BY ONLY <1>1, ended = FALSE, shifted => shifted', Layout(all, S, start, cut) DEF Layout,
     Written
<1>4. Position(all, S, start, cut[1])'
  <2>1. Position(all, S, start, cut[1])
    BY ONLY Layout(all, S, start, cut) DEF Layout
  <2>2. reader.part # "eof"
    BY ONLY <2>1, ended = FALSE DEF Position
  <2>3. InHeader(S, start[Len(received) + 1], cut[1])' <=> InHeader(S, start[Len(received) + 1], cut[1])
    BY ONLY <1>1 DEF InHeader, Once
  <2>4. ASSUME NEW m PROVE InBody(m, S, start[Len(received) + 1], cut[1])' <=> InBody(m, S, start[Len(received) + 1], cut[1])
    BY ONLY <1>1 DEF InBody
  <2> QED
    BY ONLY <1>1, <2>1, <2>2, <2>3, <2>4 DEF Position
<1>5. /\ Laid(channel, all, S, start)' /\ Fits(channel, all)' /\ Cuts(buffers, S, cut)'
      /\ Starts(channel, all, start, buffers, cut)'
  BY ONLY <1>1, Layout(all, S, start, cut) DEF Layout
<1> QED
  BY ONLY <1>2, <1>3, <1>4, <1>5 DEF Layout

\* A sequence that begins another begins it still when that grows.
LEMMA PastStays ==
  ASSUME Past, shifted' = TRUE, messages' = messages,
         received' = received \/ \E x : received' = Append(received, x)
  PROVE  W_Inv'
<1>1. CASE received' = received
  BY ONLY Past, <1>1, shifted' = TRUE, messages' = messages DEF Past, W_Inv
<1>2. ASSUME NEW x, received' = Append(received, x) PROVE W_Inv'
  <2>1. PICK T : received \in Seq(T)
    BY ONLY Past DEF Past
  <2>2. PICK U : U = (T \cup Message) \cup {x}
    OBVIOUS
  <2>3. messages \in Seq(Message) /\ IsPrefix(messages, received)
    BY ONLY Past DEF Past
  <2>4. messages \in Seq(U) /\ received \in Seq(U) /\ x \in U
    BY ONLY <2>1, <2>2, <2>3
  <2>5. PICK M, r : /\ M \in Nat /\ M = Len(messages) /\ r \in Nat /\ r = Len(received)
    <3>1. Len(messages) \in Nat /\ Len(received) \in Nat
      BY ONLY <2>4
    <3> QED
      BY ONLY <3>1
  <2>6. M <= r /\ SubSeq(messages, 1, M) = SubSeq(received, 1, M)
    BY ONLY <2>3, <2>5 DEF IsPrefix
  <2>7. PICK u : u = Append(received, x) /\ u \in Seq(U) /\ Len(u) = r + 1 /\ \A i \in 1..r : u[i] = received[i]
    <3>1. /\ Append(received, x) \in Seq(U) /\ Len(Append(received, x)) = r + 1
          /\ \A i \in 1..r : Append(received, x)[i] = received[i]
      BY ONLY <2>4, <2>5, AppendProperties
    <3> QED
      BY ONLY <3>1
  <2>8. M \in 0..Len(received) /\ M \in 0..Len(u) /\ M <= Len(u)
    BY ONLY <2>5, <2>6, <2>7
  <2>9. /\ SubSeq(received, 1, M) \in Seq(U) /\ Len(SubSeq(received, 1, M)) = M
        /\ \A i \in 1..M : SubSeq(received, 1, M)[i] = received[i]
    BY ONLY <2>4, <2>8, Beginning
  <2>10. /\ SubSeq(u, 1, M) \in Seq(U) /\ Len(SubSeq(u, 1, M)) = M
         /\ \A i \in 1..M : SubSeq(u, 1, M)[i] = u[i]
    BY ONLY <2>7, <2>8, Beginning
  <2>11. \A i \in 1..M : i \in 1..r
    BY ONLY <2>5, <2>6
  <2>12. SubSeq(received, 1, M) = SubSeq(u, 1, M)
    <3>1. PICK s, t : s = SubSeq(received, 1, M) /\ t = SubSeq(u, 1, M)
      OBVIOUS
    <3>2. s \in Seq(U) /\ t \in Seq(U) /\ Len(s) = Len(t) /\ \A i \in 1..Len(s) : s[i] = t[i]
      BY ONLY <2>7, <2>9, <2>10, <2>11, <3>1
    <3>3. s = t
      BY ONLY <3>2, SameOctets
    <3> QED
      BY ONLY <3>1, <3>3
  <2>13. IsPrefix(messages, u)
    BY ONLY <2>5, <2>6, <2>8, <2>12 DEF IsPrefix
  <2>14. messages' = messages /\ received' = u /\ u \in Seq(U) /\ shifted' = TRUE
    BY ONLY <1>2, <2>7, shifted' = TRUE, messages' = messages
  <2> QED
    BY ONLY <2>3, <2>13, <2>14 DEF Past, W_Inv
<1> QED
  BY ONLY <1>1, <1>2, received' = received \/ \E x : received' = Append(received, x)

\* A message that is written.
LEMMA MessageFacts ==
  ASSUME NEW m \in Messages
  PROVE  m \in Message /\ (channel # "control" => m.cmd = 0)
<1>1. 0 \in Octets /\ Bodies \subseteq Seq(Octets) /\ Cmds \subseteq Octets
  BY WireConstants DEF Octets
<1>2. CASE channel = "control"
  BY <1>1, <1>2 DEF Messages, Message
<1>3. CASE channel # "control"
  <2>1. m.cmd = 0 /\ m.body \in Bodies /\ m = [cmd |-> m.cmd, body |-> m.body]
    BY <1>3 DEF Messages
  <2> QED
    BY <1>1, <2>1 DEF Message
<1> QED
  BY <1>2, <1>3

\* What is written of a message is its beginning.
LEMMA BeginningOf ==
  ASSUME channel \in Channels, NEW m, m \in Message, NEW n, n \in 1..Len(encode(m)), NEW o,
         o = SubSeq(encode(m), 1, n)
  PROVE  /\ o \in Seq(Octets) /\ Len(o) = n /\ Len(o) > 0 /\ Len(o) \in 1..Size(channel, m)
         /\ \A i \in 1..Len(o) : o[i] = OctetOf(channel, m, i)
         /\ Len(encode(m)) = Size(channel, m)
<1>1. PICK z : z = Size(channel, m) /\ z \in Nat
  BY ONLY m \in Message, SizePositive
<1>2. PICK e : e = encode(m) /\ e \in Seq(Octets) /\ Len(e) = z /\ \A i \in 1..z : e[i] = OctetOf(channel, m, i)
  BY ONLY <1>1, channel \in Channels, m \in Message, Encoded
<1>3. n \in 1..z /\ n \in 0..z /\ n \in Nat /\ n > 0 /\ \A i \in 1..n : i \in 1..z
  BY ONLY <1>1, <1>2, n \in 1..Len(encode(m))
<1>4. /\ SubSeq(e, 1, n) \in Seq(Octets) /\ Len(SubSeq(e, 1, n)) = n
      /\ \A i \in 1..n : SubSeq(e, 1, n)[i] = e[i]
  BY ONLY <1>2, <1>3, Beginning
<1> QED
  BY ONLY <1>1, <1>2, <1>3, <1>4, o = SubSeq(encode(m), 1, n)

\* The layout of a stream that is not past its shift.
LEMMA Laying ==
  ASSUME W_Inv, ~Past
  PROVE  /\ WireTypes
         /\ \E all \in Seq(Message), S \in [Nat -> Octets], start, cut \in [Nat -> Nat] :
              Layout(all, S, start, cut)
  BY DEF W_Inv

\* A message is written.
LEMMA WriteMessageKeeps ==
  ASSUME W_Inv, NEW m \in Messages, WriteMessage(m)
  PROVE  W_Inv'
<1>1. CASE Past
  <2>1. shifted' = TRUE /\ messages' = messages /\ received' = received
    BY <1>1 DEF Past, WriteMessage
  <2> QED
    BY ONLY <1>1, <2>1, PastStays
<1>2. CASE ~Past
  <2>1. WireTypes
    BY <1>2, Laying
  <2>2. PICK all \in Seq(Message), S \in [Nat -> Octets], start \in [Nat -> Nat], cut \in [Nat -> Nat] :
           Layout(all, S, start, cut)
    BY <1>2, Laying
  <2>3. all \in Seq(Message) /\ S \in [Nat -> Octets] /\ start \in [Nat -> Nat] /\ cut \in [Nat -> Nat]
    OBVIOUS
  <2>4. m \in Message /\ (channel # "control" => m.cmd = 0)
    BY MessageFacts
  <2>5. ended = FALSE /\ channel \in Channels /\ shifted \in BOOLEAN
    BY <2>1 DEF WireTypes, WriteMessage
  <2>6. PICK o : o = encode(m)
    OBVIOUS
  <2>7. PICK z : z = Size(channel, m) /\ z \in Nat /\ z > 0
    BY ONLY <2>4, SizePositive
  <2>8. o \in Seq(Octets) /\ Len(o) = z /\ \A i \in 1..Len(o) : o[i] = OctetOf(channel, m, i)
    BY ONLY <2>4, <2>5, <2>6, <2>7, Encoded
  <2>9. Len(o) > 0 /\ Len(o) \in 1..Size(channel, m) /\ Len(o) = Size(channel, m)
    <3>1. z \in Nat /\ z > 0 /\ Len(o) = z
      BY ONLY <2>7, <2>8
    <3>2. Len(o) > 0 /\ Len(o) \in 1..z
      BY ONLY <3>1
    <3> QED
      BY ONLY <2>7, <3>1, <3>2
  <2>10. /\ buffers' = buffers \o frames(o) /\ UNCHANGED <<channel, reader, received>>
         /\ shifted' = (shifted \/ Len(m.body) >= Width) /\ ended' = FALSE
         /\ messages' = IF shifted' THEN messages ELSE Append(messages, m)
    BY <2>5, <2>6 DEF WriteMessage
  <2>11. CASE shifted'
    <3>1. shifted' = TRUE /\ ended' \in BOOLEAN
      BY ONLY <2>10, <2>11
    <3>2. UNCHANGED <<channel, reader, received, messages>>
      BY ONLY <2>10, <2>11
    <3> QED
      BY ONLY <2>1, <2>2, <2>3, <2>5, <2>8, <2>9, <2>10, <3>1, <3>2, Shifts DEF W_Inv
  <2>12. CASE ~shifted'
    <3>1. shifted = FALSE /\ shifted' = FALSE /\ ~(Len(m.body) >= Width)
      BY ONLY <2>5, <2>10, <2>12
    <3>2. messages' = Append(messages, m) /\ ended' \in BOOLEAN
      BY ONLY <2>10, <2>12
    <3>3. Len(m.body) < Width
      <4>1. Len(m.body) \in Nat
        BY ONLY <2>4 DEF Message
      <4>2. Width \in Nat
        BY WireConstants DEF Width
      <4>3. PICK l, u : l = Len(m.body) /\ u = Width
        OBVIOUS
      <4>4. l \in Nat /\ u \in Nat /\ ~(l >= u)
        BY ONLY <3>1, <4>1, <4>2, <4>3
      <4>5. l < u
        BY ONLY <4>4
      <4> QED
        BY ONLY <4>3, <4>5
    <3> QED
      BY ONLY <2>1, <2>2, <2>3, <2>4, <2>5, <2>8, <2>9, <2>10, <3>1, <3>2, <3>3,
         Writes DEF W_Inv
  <2> QED
    BY ONLY <2>11, <2>12
<1> QED
  BY <1>1, <1>2

\* A Write fails.
LEMMA WriteMessageFailsKeeps ==
  ASSUME W_Inv, NEW m \in Messages, WriteMessageFails(m)
  PROVE  W_Inv'
<1>0. PICK n \in 0..Len(encode(m)) :
        /\ channel # "control" => n % MaxFrameSize = 0 \/ n = Len(encode(m))
        /\ buffers' = IF n = 0 THEN buffers ELSE buffers \o frames(SubSeq(encode(m), 1, n))
        /\ shifted' = (\/ shifted \/ Len(m.body) >= Width
                       \/ channel = "tunnel" /\ n \in 1..(Len(encode(m)) - 1))
        /\ messages' = IF shifted' \/ n < Len(encode(m)) THEN messages ELSE Append(messages, m)
  BY DEF WriteMessageFails
<1>1. CASE Past
  <2>1. shifted' = TRUE
    BY <1>0, <1>1 DEF Past
  <2>2. messages' = messages /\ received' = received
    BY <1>0, <2>1 DEF WriteMessageFails
  <2> QED
    BY ONLY <1>1, <2>1, <2>2, PastStays
<1>2. CASE ~Past
  <2>1. WireTypes
    BY <1>2, Laying
  <2>2. PICK all \in Seq(Message), S \in [Nat -> Octets], start \in [Nat -> Nat], cut \in [Nat -> Nat] :
           Layout(all, S, start, cut)
    BY <1>2, Laying
  <2>3. all \in Seq(Message) /\ S \in [Nat -> Octets] /\ start \in [Nat -> Nat] /\ cut \in [Nat -> Nat]
    OBVIOUS
  <2>4. m \in Message /\ (channel # "control" => m.cmd = 0)
    BY MessageFacts
  <2>5. /\ ended = FALSE /\ channel \in Channels /\ shifted \in BOOLEAN
        /\ ended' = (channel # "tunnel") /\ UNCHANGED <<channel, reader, received>>
    BY <2>1 DEF WireTypes, WriteMessageFails
  <2>6. shifted' \in BOOLEAN /\ (shifted => shifted') /\ ended' \in BOOLEAN
    BY ONLY <1>0, <2>5
  <2>7. Len(m.body) \in Nat /\ Width \in Nat
    <3>1. Len(m.body) \in Nat
      BY ONLY <2>4 DEF Message
    <3>2. Width \in Nat
      BY WireConstants DEF Width
    <3> QED
      BY ONLY <3>1, <3>2
  <2>8. PICK z : z \in Nat /\ z > 0 /\ z = Len(encode(m)) /\ z = Size(channel, m) /\ n \in 0..z
    <3>1. Len(encode(m)) = Size(channel, m)
      BY ONLY <2>4, <2>5, Encoded
    <3>2. Size(channel, m) \in Nat /\ Size(channel, m) > 0
      BY ONLY <2>4, SizePositive
    <3> QED
      BY ONLY <3>1, <3>2, n \in 0..Len(encode(m))
  <2>9. CASE n = 0
    <3>1. buffers' = buffers /\ messages' = messages
      BY ONLY <1>0, <2>8, <2>9
    <3>2. UNCHANGED <<channel, buffers, reader, received, messages>>
      BY ONLY <2>5, <3>1
    <3>3. start[Len(all) + 1] \in Nat
      <4>1. Len(all) \in Nat
        BY ONLY <2>3
      <4>2. Len(all) + 1 \in Nat
        BY ONLY <4>1
      <4> QED
        BY ONLY <2>3, <4>2
    <3>4. WireTypes' /\ Layout(all, S, start, cut)'
      BY ONLY <2>1, <2>2, <2>5, <2>6, <3>2, <3>3, Stops
    <3> QED
      BY ONLY <2>3, <3>4 DEF W_Inv
  <2>10. CASE n # 0
    <3>1. n \in 1..Len(encode(m)) /\ n \in 1..z /\ n \in Nat
      BY ONLY <2>8, <2>10
    <3>2. PICK o : o = SubSeq(encode(m), 1, n)
      OBVIOUS
    <3>3. /\ o \in Seq(Octets) /\ Len(o) = n /\ Len(o) > 0 /\ Len(o) \in 1..Size(channel, m)
          /\ \A i \in 1..Len(o) : o[i] = OctetOf(channel, m, i)
      BY ONLY <2>4, <2>5, <3>1, <3>2, BeginningOf
    <3>4. buffers' = buffers \o frames(o)
      BY ONLY <1>0, <2>10, <3>2
    <3>5. CASE shifted'
      <4>1. shifted' = TRUE
        BY ONLY <2>6, <3>5
      <4>2. UNCHANGED <<channel, reader, received, messages>>
        BY ONLY <1>0, <2>5, <3>5
      <4> QED
        BY ONLY <2>1, <2>2, <2>3, <2>5, <2>6, <3>3, <3>4, <4>1, <4>2, Shifts DEF W_Inv
    <3>6. CASE ~shifted'
      <4>1. shifted = FALSE /\ shifted' = FALSE /\ ~(Len(m.body) >= Width)
            /\ (channel = "tunnel" => n \notin 1..(Len(encode(m)) - 1))
        BY ONLY <1>0, <2>5, <2>6, <3>6
      <4>2. Len(m.body) < Width
        <5>1. PICK l, u : l = Len(m.body) /\ u = Width
          OBVIOUS
        <5>2. l \in Nat /\ u \in Nat /\ ~(l >= u)
          BY ONLY <2>7, <4>1, <5>1
        <5>3. l < u
          BY ONLY <5>2
        <5> QED
          BY ONLY <5>1, <5>3
      <4>3. channel # "control" => Len(o) = Size(channel, m) \/ Len(o) % MaxFrameSize = 0
        BY ONLY <1>0, <2>8, <3>3
      <4>4. CASE n = z
        <5>1. ~(n < Len(encode(m)))
          BY ONLY <2>8, <4>4
        <5>2. messages' = Append(messages, m) /\ Len(o) = Size(channel, m)
          BY ONLY <1>0, <2>8, <3>3, <3>6, <4>4, <5>1
        <5> QED
          BY ONLY <2>1, <2>2, <2>3, <2>4, <2>5, <2>6, <3>3, <3>4, <4>1, <4>2, <4>3, <5>2, Writes
             DEF W_Inv
      <4>5. CASE n # z
        <5>1. n < Len(encode(m)) /\ n \in 1..(Len(encode(m)) - 1) /\ Len(o) < Size(channel, m)
          <6>1. n \in Nat /\ z \in Nat /\ n \in 1..z /\ n # z
            BY ONLY <2>8, <3>1, <4>5
          <6>2. n < z /\ n \in 1..(z - 1)
            BY ONLY <6>1
          <6>3. z = Len(encode(m)) /\ z = Size(channel, m) /\ Len(o) = n
            BY ONLY <2>8, <3>3
          <6> QED
            BY ONLY <6>2, <6>3
        <5>2. messages' = messages /\ ended' = TRUE
          BY ONLY <1>0, <2>5, <4>1, <5>1
        <5> QED
          BY ONLY <2>1, <2>2, <2>3, <2>4, <2>5, <3>3, <3>4, <4>1, <4>2, <4>3, <5>1, <5>2, Writes
             DEF W_Inv
      <4> QED
        BY ONLY <4>4, <4>5
    <3> QED
      BY ONLY <3>5, <3>6
  <2> QED
    BY ONLY <2>9, <2>10
<1> QED
  BY <1>1, <1>2

\* The stream is closed.
LEMMA CloseStreamKeeps ==
  ASSUME W_Inv, CloseStream
  PROVE  W_Inv'
<1>1. CASE Past
  <2>1. shifted' = TRUE /\ messages' = messages /\ received' = received
    BY <1>1 DEF Past, CloseStream
  <2> QED
    BY ONLY <1>1, <2>1, PastStays
<1>2. CASE ~Past
  <2>1. WireTypes
    BY <1>2, Laying
  <2>2. PICK all \in Seq(Message), S \in [Nat -> Octets], start \in [Nat -> Nat], cut \in [Nat -> Nat] :
           Layout(all, S, start, cut)
    BY <1>2, Laying
  <2>3. all \in Seq(Message) /\ S \in [Nat -> Octets] /\ start \in [Nat -> Nat] /\ cut \in [Nat -> Nat]
    OBVIOUS
  <2>4. /\ UNCHANGED <<channel, buffers, reader, received, messages>> /\ ended = FALSE
        /\ ended' \in BOOLEAN /\ shifted' \in BOOLEAN /\ (shifted => shifted')
    BY <2>1 DEF CloseStream, WireTypes
  <2>5. start[Len(all) + 1] \in Nat
    <3>1. Len(all) \in Nat
      BY ONLY <2>3
    <3>2. Len(all) + 1 \in Nat
      BY ONLY <3>1
    <3> QED
      BY ONLY <2>3, <3>2
  <2>6. WireTypes' /\ Layout(all, S, start, cut)'
    BY ONLY <2>1, <2>2, <2>4, <2>5, Stops
  <2> QED
    BY ONLY <2>3, <2>6 DEF W_Inv
<1> QED
  BY <1>1, <1>2

\* Where the writer is.
LEMMA WriterAt ==
  ASSUME messages \in Seq(Message), NEW all, all \in Seq(Message), NEW S, NEW start,
  start \in [Nat -> Nat],
         Laid(channel, all, S, start), NEW w, w \in Nat, Written(all, start, w)
  PROVE  /\ Len(messages) <= Len(all)
         /\ \A k \in 1..(Len(all) + 1) : start[k] < w => shifted \/ k <= Len(all)
         /\ \A k \in 1..(Len(all) + 1) : start[k] = w => ~(k <= Len(messages))
         /\ \A k \in 1..Len(all) : start[k + 1] <= w => k <= Len(messages)
         /\ \A k \in 1..Len(messages) : all[k] = messages[k] /\ k \in 1..Len(all)
<1>1. PICK L : L \in Nat /\ L = Len(all)
  <2>1. Len(all) \in Nat
    BY ONLY all \in Seq(Message)
  <2> QED
    BY ONLY <2>1
<1>2. PICK M : M \in Nat /\ M = Len(messages)
  <2>1. Len(messages) \in Nat
    BY ONLY messages \in Seq(Message)
  <2> QED
    BY ONLY <2>1
<1>3. \/ all = messages /\ L = M /\ w = start[L + 1]
      \/ /\ L = M + 1 /\ \A k \in 1..M : all[k] = messages[k]
         /\ start[L] < w /\ w < start[L + 1]
      \/ shifted /\ all = messages /\ L = M /\ w >= start[L + 1]
  BY ONLY <1>1, <1>2, Written(all, start, w) DEF Written
<1>4. \A j \in 1..(L + 1) : \A k \in 1..(L + 1) :
         /\ start[j] \in Nat /\ start[k] \in Nat /\ j \in Nat /\ k \in Nat
         /\ j < k => start[j] < start[k]
         /\ j <= k => start[j] <= start[k]
  BY ONLY <1>1, all \in Seq(Message), start \in [Nat -> Nat], Laid(channel, all, S, start),
     Ordered
<1>5. M <= L /\ L <= M + 1 /\ L + 1 \in 1..(L + 1) /\ (L > 0 => L \in 1..(L + 1)) /\ start[L + 1] \in Nat
  <2>1. L + 1 \in 1..(L + 1) /\ (L > 0 => L \in 1..(L + 1))
    BY ONLY <1>1
  <2>2. M <= L /\ L <= M + 1
    BY ONLY <1>1, <1>2, <1>3
  <2> QED
    BY ONLY <1>4, <2>1, <2>2
<1>6. shifted \/ w <= start[L + 1]
  BY ONLY <1>3, <1>5, w \in Nat
<1>7. \A k \in 1..(L + 1) : start[k] < w => shifted \/ k <= L
  <2> SUFFICES ASSUME NEW k, k \in 1..(L + 1), start[k] < w, ~shifted PROVE k <= L
    OBVIOUS
  <2>1. start[k] \in Nat /\ k \in Nat /\ k <= L + 1
    BY ONLY <1>1, <1>4, k \in 1..(L + 1)
  <2>2. k # L + 1
    BY ONLY <1>5, <1>6, <2>1, start[k] < w, w \in Nat, ~shifted
  <2> QED
    BY ONLY <1>1, <2>1, <2>2
<1>8. \A k \in 1..(L + 1) : start[k] = w => ~(k <= M)
  <2> SUFFICES ASSUME NEW k, k \in 1..(L + 1), start[k] = w, k <= M PROVE FALSE
    OBVIOUS
  <2>1. k \in Nat /\ k < L + 1 /\ L \in 1..(L + 1)
    BY ONLY <1>1, <1>2, <1>5, k \in 1..(L + 1), k <= M
  <2>2. start[k] < start[L + 1]
    BY ONLY <1>4, <1>5, <2>1, k \in 1..(L + 1)
  <2>3. k <= L
    BY ONLY <1>1, <2>1
  <2>4. start[k] <= start[L] /\ start[L] \in Nat
    BY ONLY <1>4, <2>1, <2>3, k \in 1..(L + 1)
  <2> QED
    BY ONLY <1>3, <1>5, <2>2, <2>4, start[k] = w, w \in Nat
<1>9. \A k \in 1..L : start[k + 1] <= w => k <= M
  <2> SUFFICES ASSUME NEW k, k \in 1..L, start[k + 1] <= w PROVE k <= M
    OBVIOUS
  <2>1. k \in Nat /\ k <= L
    BY ONLY <1>1, k \in 1..L
  <2>2. CASE L = M
    BY ONLY <2>1, <2>2
  <2>3. CASE L = M + 1 /\ w < start[L + 1]
    <3>1. k # L
      BY ONLY <1>5, <2>3, start[k + 1] <= w, w \in Nat
    <3> QED
      BY ONLY <1>1, <1>2, <2>1, <2>3, <3>1
  <2> QED
    BY ONLY <1>3, <2>2, <2>3
<1>10. \A k \in 1..M : k \in 1..L
  BY ONLY <1>1, <1>2, <1>5
<1>11. \A k \in 1..M : all[k] = messages[k]
  BY ONLY <1>3
<1>12. Len(messages) <= Len(all)
  BY ONLY <1>1, <1>2, <1>5
<1>13. /\ \A k \in 1..(Len(all) + 1) : start[k] < w => shifted \/ k <= Len(all)
       /\ \A k \in 1..(Len(all) + 1) : start[k] = w => ~(k <= Len(messages))
  BY ONLY <1>1, <1>2, <1>7, <1>8
<1>14. /\ \A k \in 1..Len(all) : start[k + 1] <= w => k <= Len(messages)
       /\ \A k \in 1..Len(messages) : all[k] = messages[k] /\ k \in 1..Len(all)
  BY ONLY <1>1, <1>2, <1>9, <1>10, <1>11
<1> QED
  BY ONLY <1>12, <1>13, <1>14

Copied(S, base, s) == \A i \in 1..Len(s) : s[i] = S[base + i]
ReadInOrder == Len(received) <= Len(messages) /\ \A i \in 1..Len(received) : received[i] = messages[i]

\* What has been read, and a piece behind it.
LEMMA Gathered ==
  ASSUME NEW got, got \in Seq(Octets), NEW t, t \in Seq(Octets), NEW S, NEW base, base \in Nat,
         Copied(S, base, got), Copied(S, base + Len(got), t)
  PROVE  /\ got \o t \in Seq(Octets) /\ Len(got \o t) = Len(got) + Len(t)
         /\ Copied(S, base, got \o t)
<1>1. PICK g : g \in Nat /\ g = Len(got)
  <2>1. Len(got) \in Nat
    BY ONLY got \in Seq(Octets)
  <2> QED
    BY ONLY <2>1
<1>2. PICK n : n \in Nat /\ n = Len(t)
  <2>1. Len(t) \in Nat
    BY ONLY t \in Seq(Octets)
  <2> QED
    BY ONLY <2>1
<1>3. /\ got \o t \in Seq(Octets) /\ Len(got \o t) = g + n
      /\ \A i \in 1..(g + n) : (got \o t)[i] = IF i <= g THEN got[i] ELSE t[i - g]
  BY ONLY <1>1, <1>2, Concat, got \in Seq(Octets), t \in Seq(Octets)
<1>4. \A i \in 1..(g + n) : (got \o t)[i] = S[base + i]
  <2> SUFFICES ASSUME NEW i, i \in 1..(g + n) PROVE (got \o t)[i] = S[base + i]
    OBVIOUS
  <2>1. CASE i <= g
    <3>1. i \in 1..g
      BY ONLY <1>1, <1>2, <2>1, i \in 1..(g + n)
    <3> QED
      BY ONLY <1>1, <1>3, <2>1, <3>1, i \in 1..(g + n), Copied(S, base, got) DEF Copied
  <2>2. CASE ~(i <= g)
    <3>1. i - g \in 1..n /\ base + g + (i - g) = base + i
      BY ONLY <1>1, <1>2, <2>2, i \in 1..(g + n), base \in Nat
    <3>2. t[i - g] = S[base + g + (i - g)]
      BY ONLY <1>1, <1>2, <3>1, Copied(S, base + Len(got), t) DEF Copied
    <3> QED
      BY ONLY <1>3, <2>2, <3>1, <3>2, i \in 1..(g + n)
  <2> QED
    BY ONLY <2>1, <2>2
<1> QED
  BY ONLY <1>1, <1>2, <1>3, <1>4 DEF Copied

HeaderOf(ch, a, G) == \A i \in 1..HL(ch) : G[i] = HeaderOctet(ch, a, i)

\* A header tells the length of its message, and on the control connection the command.
LEMMA HeaderTells ==
  ASSUME NEW ch, ch \in Channels, NEW a, a \in Message, Len(a.body) < Width,
         NEW G, G \in Seq(Octets), Len(G) = HL(ch),
         HeaderOf(ch, a, G)
  PROVE  /\ Uint16(SubSeq(G, HL(ch) - 1, HL(ch))) = Len(a.body)
         /\ ch = "control" => G[2] = a.cmd
<1>1. PICK h : h \in {2, 4} /\ h = HL(ch) /\ (ch = "control" => h = 4)
  BY ONLY TRUE DEF HL
<1>2. PICK l : l \in Nat /\ l = Len(a.body)
  <2>1. Len(a.body) \in Nat
    BY ONLY a \in Message DEF Message
  <2> QED
    BY ONLY <2>1
<1>3. G[h - 1] = (l % Width) \div Base /\ G[h] = l % Base
  <2>1. h - 1 \in 1..h /\ h \in 1..h /\ h # h - 1
    BY ONLY <1>1
  <2> QED
    BY ONLY <1>1, <1>2, <2>1, HeaderOf(ch, a, G) DEF HeaderOctet, HeaderOf
<1>4. SubSeq(G, h - 1, h)[1] = G[h - 1] /\ SubSeq(G, h - 1, h)[2] = G[h]
  <2>1. CASE h = 2
    <3>1. SubSeq(G, 1, 2)[1] = G[1] /\ SubSeq(G, 1, 2)[2] = G[2]
      BY ONLY <1>1, <2>1, G \in Seq(Octets), Len(G) = HL(ch)
    <3> QED
      BY ONLY <2>1, <3>1, 2 - 1 = 1
  <2>2. CASE h = 4
    <3>1. SubSeq(G, 3, 4)[1] = G[3] /\ SubSeq(G, 3, 4)[2] = G[4]
      BY ONLY <1>1, <2>2, G \in Seq(Octets), Len(G) = HL(ch)
    <3> QED
      BY ONLY <2>2, <3>1, 4 - 1 = 3
  <2> QED
    BY ONLY <1>1, <2>1, <2>2
<1>5. ((l % Width) \div Base) * Base + (l % Base) = l
  BY ONLY <1>2, Division, Len(a.body) < Width
<1>6. ch = "control" => G[2] = a.cmd
  BY ONLY <1>1, HeaderOf(ch, a, G) DEF HeaderOctet, HeaderOf
<1> QED
  BY ONLY <1>1, <1>2, <1>3, <1>4, <1>5, <1>6 DEF Uint16

\* A message that was read in full is the next of those written.
LEMMA Finished ==
  ASSUME WireTypes, NEW all, all \in Seq(Message), NEW S, NEW start, start \in [Nat -> Nat],
         Laid(channel, all, S, start), NEW w, w \in Nat, Written(all, start, w),
         ReadInOrder,
         NEW k, k = Len(received) + 1, k <= Len(all), start[k + 1] <= w,
         received' = Append(received, all[k]), reader' = Header(FALSE),
         UNCHANGED <<channel, ended, messages>>
  PROVE  reader' \in ReaderState /\ received' \in Seq(Message) /\ Position(all, S, start,
  start[k + 1])'
<1>0. messages \in Seq(Message) /\ received \in Seq(Message)
  BY ONLY WireTypes DEF WireTypes
<1>1. PICK r : r \in Nat /\ r = Len(received)
  <2>1. Len(received) \in Nat
    BY ONLY <1>0
  <2> QED
    BY ONLY <2>1
<1>2. PICK L : L \in Nat /\ L = Len(all)
  <2>1. Len(all) \in Nat
    BY ONLY all \in Seq(Message)
  <2> QED
    BY ONLY <2>1
<1>3. k = r + 1 /\ k \in 1..L
  BY ONLY <1>1, <1>2, k = Len(received) + 1, k <= Len(all)
<1>4. k <= Len(messages) /\ all[k] = messages[k] /\ all[k] \in Message
  <2>1. /\ \A j \in 1..L : start[j + 1] <= w => j <= Len(messages)
        /\ \A j \in 1..Len(messages) : all[j] = messages[j]
    BY ONLY <1>0, <1>2, all \in Seq(Message), start \in [Nat -> Nat], Laid(channel, all, S,
       start),
       w \in Nat, Written(all, start, w), WriterAt
  <2>2. k <= Len(messages)
    BY ONLY <1>3, <2>1, start[k + 1] <= w
  <2>3. k \in 1..Len(messages)
    <3>1. Len(messages) \in Nat
      BY ONLY <1>0
    <3> QED
      BY ONLY <1>2, <1>3, <2>2, <3>1
  <2>4. all[k] \in Message
    BY ONLY <1>2, <1>3, all \in Seq(Message)
  <2> QED
    BY ONLY <2>1, <2>2, <2>3, <2>4
<1>5. /\ received' \in Seq(Message) /\ Len(received') = k /\ received'[k] = messages[k]
      /\ \A i \in 1..r : received'[i] = messages[i]
  <2>1. PICK e : e = all[k] /\ e \in Message /\ e = messages[k]
    BY ONLY <1>4
  <2>2. /\ Append(received, e) \in Seq(Message) /\ Len(Append(received, e)) = r + 1
        /\ Append(received, e)[r + 1] = e
        /\ \A i \in 1..r : Append(received, e)[i] = received[i]
    BY ONLY <1>0, <1>1, <2>1, AppendProperties
  <2> QED
    BY ONLY <1>1, <1>3, <2>1, <2>2, received' = Append(received, all[k]),
       ReadInOrder DEF ReadInOrder
<1>6. \A i \in 1..k : received'[i] = messages[i]
  <2>1. \A i \in 1..k : i = k \/ i \in 1..r
    BY ONLY <1>1, <1>3
  <2> QED
    BY ONLY <1>5, <2>1
<1>7. PICK h : h \in {2, 4} /\ h = HL(channel) /\ h = HeaderLen
  BY ONLY TRUE DEF HL, HeaderLen
<1>8. reader' = [part |-> "header", need |-> h, got |-> <<>>, cmd |-> 0, first |-> FALSE]
  BY ONLY <1>7, reader' = Header(FALSE) DEF Header
<1>9. reader' \in ReaderState
  <2>1. 0 \in Octets
    BY WireConstants DEF Octets
  <2>2. <<>> \in Seq(Octets) /\ h \in Nat
    BY ONLY <1>7
  <2> QED
    BY ONLY <1>8, <2>1, <2>2 DEF ReaderState
<1>10. InHeader(S, start[k + 1], start[k + 1])'
  <2>1. start[k + 1] \in Nat
    <3>1. k + 1 \in Nat
      BY ONLY <1>2, <1>3
    <3> QED
      BY ONLY <3>1, start \in [Nat -> Nat]
  <2>2. \A x \in Nat : x = x + Len(<<>>)
    OBVIOUS
  <2>3. Len(<<>>) + h = h /\ h > 0 /\ Len(<<>>) = 0 /\ \A i \in 1..0 : FALSE
    BY ONLY <1>7
  <2>4. channel' = channel /\ reader'.need = h /\ reader'.got = <<>> /\ reader'.first = FALSE
    BY ONLY <1>8, UNCHANGED <<channel, ended, messages>>
  <2> QED
    BY ONLY <1>7, <2>1, <2>2, <2>3, <2>4 DEF InHeader, Once
<1>11. Position(all, S, start, start[k + 1])'
  <2>1. messages' = messages /\ reader'.part = "header"
    BY ONLY <1>8, UNCHANGED <<channel, ended, messages>>
  <2> QED
    BY ONLY <1>4, <1>5, <1>6, <1>10, <2>1 DEF Position
<1> QED
  BY ONLY <1>5, <1>9, <1>11

\* Everything but the position of the reader.
Placed(all, S, start, cut) ==
  /\ Laid(channel, all, S, start) /\ Fits(channel, all) /\ Cuts(buffers, S, cut)
  /\ Starts(channel, all, start, buffers, cut) /\ Written(all, start, cut[Len(buffers) + 1])

\* A read takes the next octets of the stream.
LEMMA Reads ==
  ASSUME WireTypes, NEW all, all \in Seq(Message), NEW S, NEW start, start \in [Nat -> Nat],
         NEW cut, cut \in [Nat -> Nat], Placed(all, S, start, cut),
         NEW n, n \in Nat, CanRead(n), buffers' = Rest(n), 
         UNCHANGED <<channel, ended, messages, shifted>>,
         NEW t, t = SubSeq(Head(buffers), 1, n)
  PROVE  /\ buffers' \in Seq(Seq(Octets)) /\ n > 0 /\ n <= reader.need
         /\ t \in Seq(Octets) /\ Len(t) = n /\ Copied(S, cut[1], t)
         /\ cut[1] + n <= cut[Len(buffers) + 1]
         /\ \E cut2 \in [Nat -> Nat] : cut2[1] = cut[1] + n /\ Placed(all, S, start, cut2)'
<1>1. buffers \in Seq(Seq(Octets))
  BY ONLY WireTypes DEF WireTypes
<1>2. buffers # <<>> /\ n \in 1..Len(Head(buffers)) /\ n <= reader.need
  BY ONLY CanRead(n) DEF CanRead
<1>3. PICK tail : tail = buffers'
  OBVIOUS
<1>4. tail = Remaining(buffers, n)
  BY ONLY <1>3, buffers' = Rest(n) DEF Rest, Remaining
<1>5. Cuts(buffers, S, cut)
  BY ONLY Placed(all, S, start, cut) DEF Placed
<1>7. /\ tail \in Seq(Seq(Octets)) /\ cut[1] + n <= cut[Len(buffers) + 1]
      /\ t \in Seq(Octets) /\ Len(t) = n /\ \A i \in 1..n : t[i] = S[cut[1] + i]
      /\ \E y \in [Nat -> Nat] : /\ Spans(tail, S, y, cut[1] + n, cut[Len(buffers) + 1])
                                 /\ Ends(buffers, cut, tail, y)
  <2>1. Taken(buffers, S, cut, n, tail, t)
    BY ONLY <1>1, <1>2, <1>4, <1>5, t = SubSeq(Head(buffers), 1, n), cut \in [Nat -> Nat], Takes
  <2> QED
    BY ONLY <2>1 DEF Taken
<1>11. PICK cut2 \in [Nat -> Nat] : /\ Spans(tail, S, cut2, cut[1] + n, cut[Len(buffers) + 1])
                                    /\ Ends(buffers, cut, tail, cut2)
  BY ONLY <1>7
<1>12. PICK w : w = cut[Len(buffers) + 1]
  OBVIOUS
<1>13. Cuts(tail, S, cut2) /\ cut2[1] = cut[1] + n /\ cut2[Len(tail) + 1] = w
  BY ONLY <1>11, <1>12 DEF Spans
<1>8. Placed(all, S, start, cut2)'
  <2>1. channel' = channel /\ ended' = ended /\ messages' = messages /\ shifted' = shifted
    BY ONLY UNCHANGED <<channel, ended, messages, shifted>>
  <2>2. Written(all, start, w) /\ Laid(channel, all, S, start) /\ Fits(channel, all)
    BY ONLY <1>12, Placed(all, S, start, cut) DEF Placed
  <2>3. Written(all, start, w)'
    BY ONLY <2>1, <2>2 DEF Written
  <2>4. cut2[Len(buffers') + 1] = w
    BY ONLY <1>3, <1>13
  <2>5. Written(all, start, cut2[Len(buffers) + 1])'
    BY ONLY <2>3, <2>4
  <2>6. Starts(channel, all, start, tail, cut2)
    <3>1. Starts(channel, all, start, buffers, cut) /\ cut2 \in [Nat -> Nat]
      BY ONLY <1>11, Placed(all, S, start, cut) DEF Placed
    <3> QED
      BY ONLY <1>1, <1>7, <1>11, <3>1, all \in Seq(Message), start \in [Nat -> Nat],
         cut \in [Nat -> Nat], StartsLeft
  <2> QED
    BY ONLY <1>3, <1>13, <2>1, <2>2, <2>5, <2>6 DEF Placed
<1>9. n > 0
  BY ONLY <1>2, n \in Nat
<1>10. cut2 \in [Nat -> Nat]
  OBVIOUS
<1> QED
  BY ONLY <1>2, <1>3, <1>7, <1>8, <1>9, <1>10, <1>13 DEF Copied

\* A Read keeps the invariant if it keeps the reader's position.
LEMMA Advances ==
  ASSUME WireTypes, NEW all, all \in Seq(Message), NEW S,
  S \in [Nat -> Octets],
         NEW start, start \in [Nat -> Nat], NEW cut, cut \in [Nat -> Nat], Placed(all, S,
         start, cut),
         NEW n, n \in Nat, CanRead(n), buffers' = Rest(n),
         UNCHANGED <<channel, ended, messages, shifted>>,
         reader' \in ReaderState, received' \in Seq(Message),
         NEW pos, pos = cut[1] + n, Position(all, S, start, pos)'
  PROVE  W_Inv'
<1>1. channel' = channel /\ ended' = ended /\ messages' = messages /\ shifted' = shifted
  BY ONLY UNCHANGED <<channel, ended, messages, shifted>>
<1>2. /\ buffers' \in Seq(Seq(Octets))
      /\ \E cut2 \in [Nat -> Nat] : cut2[1] = cut[1] + n /\ Placed(all, S, start, cut2)'
  <2>1. PICK t : t = SubSeq(Head(buffers), 1, n)
    OBVIOUS
  <2> QED
    BY ONLY <2>1, WireTypes, all \in Seq(Message), start \in [Nat -> Nat],
       cut \in [Nat -> Nat], UNCHANGED <<channel, ended, messages, shifted>>,
       Placed(all, S, start, cut), n \in Nat, CanRead(n), buffers' = Rest(n), Reads
<1>3. PICK cut2 \in [Nat -> Nat] : cut2[1] = cut[1] + n /\ Placed(all, S, start, cut2)'
  BY ONLY <1>2
<1>4. Position(all, S, start, cut2[1])'
  BY ONLY <1>3, pos = cut[1] + n, Position(all, S, start, pos)'
<1>5. Layout(all, S, start, cut2)'
  BY ONLY <1>3, <1>4 DEF Layout, Placed
<1>6. WireTypes'
  BY ONLY <1>1, <1>2, WireTypes, reader' \in ReaderState,
     received' \in Seq(Message) DEF WireTypes
<1>7. cut2 \in [Nat -> Nat]
  OBVIOUS
<1> QED
  BY ONLY <1>1, <1>5, <1>6, <1>7, all \in Seq(Message), S \in [Nat -> Octets],
     start \in [Nat -> Nat]
     DEF W_Inv

NextIs(ch, S, from, to, a) ==
  /\ a \in Message /\ Len(a.body) < Width
  /\ from \in Nat /\ to = from + HL(ch) + Len(a.body)
  /\ \A i \in 1..HL(ch) : S[from + i] = HeaderOctet(ch, a, i)
  /\ \A i \in 1..Len(a.body) : S[from + HL(ch) + i] = a.body[i]
  /\ ch # "control" => a.cmd = 0

\* The message that is read, and where it is.
LEMMA NextMessage ==
  ASSUME messages \in Seq(Message), channel \in Channels, NEW all, all \in Seq(Message), NEW S,
         NEW start, start \in [Nat -> Nat], Laid(channel, all, S, start), Fits(channel, all),
         NEW w, w \in Nat, Written(all, start, w), NEW k, k \in 1..(Len(messages) + 1),
         start[k] < w, shifted => k <= Len(messages)
  PROVE  k <= Len(all) /\ NextIs(channel, S, start[k], start[k + 1], all[k])
<1>1. PICK L : L \in Nat /\ L = Len(all)
  <2>1. Len(all) \in Nat
    BY ONLY all \in Seq(Message)
  <2> QED
    BY ONLY <2>1
<1>2. PICK M : M \in Nat /\ M = Len(messages)
  <2>1. Len(messages) \in Nat
    BY ONLY messages \in Seq(Message)
  <2> QED
    BY ONLY <2>1
<1>3. M <= L /\ \A j \in 1..(L + 1) : start[j] < w => shifted \/ j <= L
  BY ONLY <1>1, <1>2, messages \in Seq(Message), all \in Seq(Message), start \in [Nat -> Nat],
     Laid(channel, all, S, start), w \in Nat, Written(all, start, w), WriterAt
<1>4. k \in Nat /\ k \in 1..(L + 1)
  BY ONLY <1>1, <1>2, <1>3, k \in 1..(Len(messages) + 1)
<1>5. k \in 1..L /\ k <= L
  <2>1. k <= L
    BY ONLY <1>1, <1>2, <1>3, <1>4, start[k] < w, shifted => k <= Len(messages)
  <2> QED
    BY ONLY <1>1, <1>4, <2>1
<1>6. PICK a : a = all[k] /\ a \in Message
  <2>1. all[k] \in Message
    BY ONLY <1>1, <1>5, all \in Seq(Message)
  <2> QED
    BY ONLY <2>1
<1>7. Len(a.body) < Width /\ (channel # "control" => a.cmd = 0)
  BY ONLY <1>1, <1>5, <1>6, Fits(channel, all) DEF Fits
<1>8. PICK h : h \in {2, 4} /\ h = HL(channel)
  BY ONLY TRUE DEF HL
<1>9. PICK l : l \in Nat /\ l = Len(a.body)
  <2>1. Len(a.body) \in Nat
    BY ONLY <1>6 DEF Message
  <2> QED
    BY ONLY <2>1
<1>10. PICK b : b \in Nat /\ b = start[k]
  BY ONLY <1>4, start \in [Nat -> Nat]
<1>11. start[k + 1] = b + (h + l) /\ \A i \in 1..(h + l) : S[b + i] = OctetOf(channel, a, i)
  BY ONLY <1>1, <1>5, <1>6, <1>8, <1>9, <1>10, Laid(channel, all, S, start) DEF Laid, Size
<1>12. \A i \in 1..h : S[b + i] = HeaderOctet(channel, a, i)
  <2>1. \A i \in 1..h : i \in 1..(h + l) /\ i <= h
    BY ONLY <1>8, <1>9
  <2> QED
    BY ONLY <1>8, <1>11, <2>1 DEF OctetOf
<1>13. \A i \in 1..l : S[b + h + i] = a.body[i]
  <2>1. \A i \in 1..l : h + i \in 1..(h + l) /\ ~(h + i <= h) /\ h + i - h = i /\ b + (h + i) = b + h + i
    <3>1. h \in Nat /\ l \in Nat /\ b \in Nat
      BY ONLY <1>8, <1>9, <1>10
    <3>2. \A i \in 1..l : i \in Nat /\ i > 0 /\ i <= l
      BY ONLY <3>1
    <3>3. \A i \in Nat : i > 0 /\ i <= l => /\ h + i \in 1..(h + l) /\ ~(h + i <= h)
                                            /\ h + i - h = i /\ b + (h + i) = b + h + i
      BY ONLY <3>1
    <3> QED
      BY ONLY <3>2, <3>3
  <2> QED
    BY ONLY <1>8, <1>11, <2>1 DEF OctetOf
<1>14. b + (h + l) = b + h + l
  BY ONLY <1>8, <1>9, <1>10
<1> QED
  BY ONLY <1>1, <1>5, <1>6, <1>7, <1>8, <1>9, <1>10, <1>11, <1>12, <1>13, <1>14 DEF NextIs

\* A whole header.
LEMMA HeaderDone ==
  ASSUME WireTypes, NEW all, all \in Seq(Message), NEW S, NEW start, start \in [Nat -> Nat],
         Laid(channel, all, S, start), Fits(channel, all), NEW w, w \in Nat, Written(all,
         start, w),
         ReadInOrder,
         NEW b, b = start[Len(received) + 1], b + HL(channel) <= w,
         shifted => Len(received) < Len(messages),
         NEW G, G \in Seq(Octets), Len(G) = HL(channel), Copied(S, b, G),
         HeaderRead(G), UNCHANGED <<channel, ended, messages, shifted>>
  PROVE  /\ reader' \in ReaderState /\ received' \in Seq(Message)
         /\ Position(all, S, start, b + HL(channel))'
<1>0. messages \in Seq(Message) /\ received \in Seq(Message) /\ channel \in Channels
  BY ONLY WireTypes DEF WireTypes
<1>1. PICK r : r \in Nat /\ r = Len(received)
  <2>1. Len(received) \in Nat
    BY ONLY <1>0
  <2> QED
    BY ONLY <2>1
<1>2. PICK k : k = r + 1
  OBVIOUS
<1>3. PICK h : h \in {2, 4} /\ h = HL(channel) /\ h = HeaderLen
  BY ONLY TRUE DEF HL, HeaderLen
<1>4. k \in 1..(Len(messages) + 1) /\ b \in Nat /\ b < w /\ b = start[k]
  <2>1. Len(messages) \in Nat
    BY ONLY <1>0
  <2>2. r <= Len(messages)
    BY ONLY <1>1, ReadInOrder DEF ReadInOrder
  <2>3. k \in Nat /\ b = start[k]
    BY ONLY <1>1, <1>2, b = start[Len(received) + 1]
  <2>4. b \in Nat
    BY ONLY <2>3, start \in [Nat -> Nat]
  <2>5. b + h <= w
    BY ONLY <1>3, b + HL(channel) <= w
  <2> QED
    BY ONLY <1>1, <1>2, <1>3, <2>1, <2>2, <2>3, <2>4, <2>5, w \in Nat
<1>5. PICK a : a = all[k]
  OBVIOUS
<1>6. /\ k <= Len(all) /\ a \in Message /\ Len(a.body) < Width /\ start[k + 1] = b + h + Len(a.body)
      /\ \A i \in 1..h : S[b + i] = HeaderOctet(channel, a, i)
      /\ channel # "control" => a.cmd = 0
  <2>2. shifted => k <= Len(messages)
    <3>1. Len(messages) \in Nat
      BY ONLY <1>0
    <3> QED
      BY ONLY <1>1, <1>2, <3>1, shifted => Len(received) < Len(messages)
  <2>1. k <= Len(all) /\ NextIs(channel, S, start[k], start[k + 1], all[k])
    BY ONLY <1>0, <1>4, all \in Seq(Message), start \in [Nat -> Nat], Laid(channel, all, S,
       start),
       Fits(channel, all), w \in Nat, Written(all, start, w), <2>2, NextMessage
  <2> QED
    BY ONLY <1>3, <1>4, <1>5, <2>1 DEF NextIs
<1>7. PICK l : l \in Nat /\ l = Len(a.body) /\ (l = 0 <=> a.body = <<>>)
  <2>1. a.body \in Seq(Octets)
    BY ONLY <1>6 DEF Message
  <2>2. Len(a.body) \in Nat /\ (Len(a.body) = 0 <=> a.body = <<>>)
    BY ONLY <2>1, EmptySeq
  <2> QED
    BY ONLY <2>2
<1>8. Uint16(SubSeq(G, h - 1, h)) = l /\ (channel = "control" => G[2] = a.cmd)
  <2>1. HeaderOf(channel, a, G)
    BY ONLY <1>3, <1>6, Len(G) = HL(channel), Copied(S, b, G) DEF HeaderOf, Copied
  <2>2. a \in Message /\ Len(a.body) < Width /\ channel \in Channels
    BY ONLY <1>0, <1>6
  <2>3. /\ Uint16(SubSeq(G, HL(channel) - 1, HL(channel))) = Len(a.body)
        /\ channel = "control" => G[2] = a.cmd
    BY ONLY <2>1, <2>2, G \in Seq(Octets), Len(G) = HL(channel), HeaderTells
  <2> QED
    BY ONLY <1>3, <1>7, <2>3
<1>9. PICK c : c = (IF channel = "control" THEN G[2] ELSE 0) /\ c = a.cmd
  BY ONLY <1>0, <1>6, <1>8 DEF Channels
<1>10. a = [cmd |-> c, body |-> a.body] /\ c \in Octets
  BY ONLY <1>6, <1>9 DEF Message
<1>11. IF l = 0 /\ channel = "tunnel" /\ reader.first
       THEN reader' = [reader EXCEPT !.part = "failed"] /\ UNCHANGED received
       ELSE IF l = 0
       THEN /\ received' = Append(received, [cmd |-> c, body |-> <<>>])
            /\ reader' = Header(FALSE)
       ELSE /\ reader' = [part |-> "body", need |-> l, got |-> <<>>, cmd |-> c, first |-> FALSE]
            /\ UNCHANGED received
  BY ONLY <1>3, <1>8, <1>9, HeaderRead(G) DEF HeaderRead
<1>15. UNCHANGED <<channel, ended, messages>>
  BY ONLY UNCHANGED <<channel, ended, messages, shifted>>
<1>12. CASE l = 0 /\ channel = "tunnel" /\ reader.first
  <2>1. reader' = [reader EXCEPT !.part = "failed"] /\ received' = received
    BY ONLY <1>11, <1>12
  <2>2. reader \in ReaderState
    BY ONLY WireTypes DEF WireTypes
  <2>3. reader' \in ReaderState /\ reader'.part = "failed"
    BY ONLY <2>1, <2>2 DEF ReaderState
  <2>4. channel' = channel /\ messages' = messages
    BY ONLY <1>15
  <2>5. Position(all, S, start, b + HL(channel))'
    BY ONLY <2>1, <2>3, <2>4, ReadInOrder DEF Position, ReadInOrder
  <2> QED
    BY ONLY <1>0, <2>1, <2>3, <2>5
<1>13. CASE l = 0 /\ ~(channel = "tunnel" /\ reader.first)
  <2>1. received' = Append(received, a) /\ reader' = Header(FALSE)
    BY ONLY <1>7, <1>10, <1>11, <1>13
  <2>2. start[k + 1] = b + h
    BY ONLY <1>3, <1>4, <1>6, <1>7, <1>13
  <2>3. start[k + 1] <= w /\ k = Len(received) + 1
    BY ONLY <1>1, <1>2, <1>3, <2>2, b + HL(channel) <= w
  <2>4. reader' \in ReaderState /\ received' \in Seq(Message) /\ Position(all, S, start, start[k + 1])'
    BY ONLY <1>5, <1>6, <2>1, <2>3, WireTypes, all \in Seq(Message), start \in [Nat -> Nat],
       Laid(channel, all, S, start), w \in Nat, Written(all, start, w),
       ReadInOrder, <1>15, Finished
  <2>5. channel' = channel
    BY ONLY <1>15
  <2>6. Position(all, S, start, b + h)'
    BY ONLY <2>2, <2>4
  <2> QED
    BY ONLY <1>3, <2>4, <2>5, <2>6
<1>14. CASE l # 0
  <2>1. /\ reader' = [part |-> "body", need |-> l, got |-> <<>>, cmd |-> c, first |-> FALSE]
        /\ received' = received
    BY ONLY <1>11, <1>14
  <2>2. channel' = channel /\ messages' = messages
    BY ONLY <1>15
  <2>3. reader' \in ReaderState
    <3>1. <<>> \in Seq(Octets)
      OBVIOUS
    <3> QED
      BY ONLY <1>7, <1>10, <2>1, <3>1 DEF ReaderState
  <2>4. InBody(a, S, b, b + h)'
    <3>1. l > 0 /\ Len(<<>>) + l = l /\ b + h = b + h + Len(<<>>) /\ Len(<<>>) = 0 /\ \A i \in 1..0 : FALSE
      BY ONLY <1>3, <1>4, <1>7, <1>14
    <3>2. reader'.need = l /\ reader'.got = <<>> /\ reader'.cmd = a.cmd
      BY ONLY <1>9, <2>1
    <3>3. HL(channel') = h
      BY ONLY <1>3, <2>2
    <3> QED
      BY ONLY <1>7, <3>1, <3>2, <3>3 DEF InBody
  <2>5. reader'.part = "body"
    BY ONLY <2>1
  <2>6. Len(received) < Len(all) /\ a = all[Len(received) + 1] /\ b = start[Len(received) + 1]
    <3>1. Len(all) \in Nat
      BY ONLY all \in Seq(Message)
    <3> QED
      BY ONLY <1>1, <1>2, <1>4, <1>5, <1>6, <3>1
  <2>7. Position(all, S, start, b + h)'
    BY ONLY <2>1, <2>2, <2>4, <2>5, <2>6, ReadInOrder DEF Position, ReadInOrder
  <2> QED
    BY ONLY <1>0, <1>3, <2>1, <2>2, <2>3, <2>7
<1> QED
  BY ONLY <1>12, <1>13, <1>14

\* Where the reader is, and the piece it reads.
LEMMA AtReader ==
  ASSUME W_Inv, ~Past
  PROVE  /\ WireTypes /\ (shifted => Len(received) < Len(messages))
         /\ \E all \in Seq(Message), S \in [Nat -> Octets], start, cut \in [Nat -> Nat] :
               Placed(all, S, start, cut) /\ Position(all, S, start, cut[1])
<1>1. WireTypes
  BY Laying
<1>2. PICK all \in Seq(Message), S \in [Nat -> Octets], start \in [Nat -> Nat], cut \in [Nat -> Nat] :
         Layout(all, S, start, cut)
  BY Laying
<1>3. Placed(all, S, start, cut) /\ Position(all, S, start, cut[1])
  BY ONLY <1>2 DEF Layout, Placed
<1>4. messages \in Seq(Message) /\ received \in Seq(Message) /\ shifted \in BOOLEAN
  BY ONLY <1>1 DEF WireTypes
<1>9. PICK M : M \in Nat /\ M = Len(messages)
  <2>1. Len(messages) \in Nat
    BY ONLY <1>4
  <2> QED
    BY ONLY <2>1
<1>5. PICK r : r \in Nat /\ r = Len(received) /\ M \in Nat /\ M = Len(messages)
  <2>1. Len(received) \in Nat
    BY ONLY <1>4
  <2> QED
    BY ONLY <1>9, <2>1
<1>6. r <= M /\ \A i \in 1..r : received[i] = messages[i]
  BY ONLY <1>3, <1>5 DEF Position
<1>7. ASSUME shifted PROVE r # M
  <2> SUFFICES ASSUME r = M PROVE FALSE
    OBVIOUS
  <2>1. Len(received) = Len(messages) /\ \A i \in 1..Len(received) : received[i] = messages[i]
    BY ONLY <1>5, <1>6, r = M
  <2>2. received = messages
    BY ONLY <1>4, <2>1, SameOctets
  <2>3. Len(messages) <= Len(messages)
    BY ONLY <1>5
  <2>4. IsPrefix(messages, messages)
    BY ONLY <2>3 DEF IsPrefix
  <2>5. shifted = TRUE
    BY ONLY <1>4, <1>7
  <2>6. Past
    BY ONLY <1>4, <2>2, <2>4, <2>5 DEF Past
  <2> QED
    BY ONLY <2>6, ~Past
<1>8. shifted => r < M
  BY ONLY <1>5, <1>6, <1>7
<1> QED
  BY ONLY <1>1, <1>3, <1>5, <1>8

Gets(S, base, cut, n, G) ==
  /\ G \in Seq(Octets) /\ Len(G) = Len(reader.got) + n /\ Len(reader.got) \in Nat
  /\ Copied(S, base, G)
  /\ n > 0 /\ n <= reader.need /\ cut[1] + n <= cut[Len(buffers) + 1]

\* The piece that a Read returns, behind what was read before.
LEMMA Piece ==
  ASSUME WireTypes, NEW all, all \in Seq(Message), NEW S, NEW start, start \in [Nat -> Nat],
         NEW cut, cut \in [Nat -> Nat], Placed(all, S, start, cut),
         NEW n, n \in Nat, CanRead(n), buffers' = Rest(n), 
         UNCHANGED <<channel, ended, messages, shifted>>,
         NEW base, base \in Nat, cut[1] = base + Len(reader.got),
         Copied(S, base, reader.got),
         NEW G, G = reader.got \o SubSeq(Head(buffers), 1, n)
  PROVE  Gets(S, base, cut, n, G)
<1>1. PICK t : t = SubSeq(Head(buffers), 1, n)
  OBVIOUS
<1>2. /\ n > 0 /\ n <= reader.need /\ t \in Seq(Octets) /\ Len(t) = n
      /\ Copied(S, cut[1], t)
      /\ cut[1] + n <= cut[Len(buffers) + 1]
  BY ONLY <1>1, WireTypes, all \in Seq(Message), start \in [Nat -> Nat], cut \in [Nat -> Nat],
     Placed(all, S, start, cut), n \in Nat, CanRead(n), buffers' = Rest(n),
     UNCHANGED <<channel, ended, messages, shifted>>, Reads
<1>3. PICK got : got = reader.got /\ got \in Seq(Octets) /\ Len(got) \in Nat
  <2>1. reader.got \in Seq(Octets)
    BY ONLY WireTypes DEF WireTypes, ReaderState
  <2>2. Len(reader.got) \in Nat
    BY ONLY <2>1
  <2> QED
    BY ONLY <2>1, <2>2
<1>4. Copied(S, base, got) /\ Copied(S, base + Len(got), t)
  BY ONLY <1>2, <1>3, Copied(S, base, reader.got), cut[1] = base + Len(reader.got)
<1>5. t \in Seq(Octets) /\ got \in Seq(Octets)
  BY ONLY <1>2, <1>3
<1>6. got \o t \in Seq(Octets) /\ Len(got \o t) = Len(got) + Len(t) /\ Copied(S, base, got \o t)
  BY ONLY <1>4, <1>5, base \in Nat, Gathered
<1> QED
  BY ONLY <1>1, <1>2, <1>3, <1>6, G = reader.got \o SubSeq(Head(buffers), 1, n) DEF Gets

\* A header is one message more, or none.
LEMMA HeaderReceives ==
  ASSUME NEW G, HeaderRead(G)
  PROVE  received' = received \/ \E x : received' = Append(received, x)
<1>1. PICK c, l : c = (IF channel = "control" THEN G[2] ELSE 0)
                  /\ l = Uint16(SubSeq(G, HeaderLen - 1, HeaderLen))
  OBVIOUS
<1>2. \/ received' = received
      \/ received' = Append(received, [cmd |-> c, body |-> <<>>])
  BY <1>1 DEF HeaderRead
<1> QED
  BY ONLY <1>2

\* Octets of a header are read.
LEMMA ReadHeaderKeeps ==
  ASSUME W_Inv, ReadHeader
  PROVE  W_Inv'
<1>1. CASE Past
  <2>1. shifted' = TRUE /\ messages' = messages
    BY <1>1 DEF ReadHeader, Past
  <2>2. \/ UNCHANGED received \/ HeaderRead(reader.got \o SubSeq(Head(buffers), 1, HeaderLen))
        \/ \E G : HeaderRead(G)
    BY DEF ReadHeader
  <2>3. received' = received \/ \E x : received' = Append(received, x)
    BY <2>2, HeaderReceives
  <2> QED
    BY ONLY <1>1, <2>1, <2>3, PastStays
<1>2. CASE ~Past
  <2>1. WireTypes /\ (shifted => Len(received) < Len(messages))
    BY <1>2, AtReader
  <2>2. PICK all \in Seq(Message), S \in [Nat -> Octets], start \in [Nat -> Nat], cut \in [Nat -> Nat] :
           Placed(all, S, start, cut) /\ Position(all, S, start, cut[1])
    BY <1>2, AtReader
  <2>3. all \in Seq(Message) /\ S \in [Nat -> Octets] /\ start \in [Nat -> Nat] /\ cut \in [Nat -> Nat]
    OBVIOUS
  <2>4. reader.part = "header" /\ UNCHANGED <<channel, ended, messages, shifted>>
    BY DEF ReadHeader
  <2>5. PICK n \in 1..HeaderLen :
          /\ CanRead(n) /\ buffers' = Rest(n)
          /\ IF n = reader.need THEN HeaderRead(reader.got \o SubSeq(Head(buffers), 1, n))
             ELSE IF channel = "tunnel" /\ reader.first
             THEN HeaderRead(Append(reader.got \o SubSeq(Head(buffers), 1, n), 0))
             ELSE IF channel = "answers" THEN UNCHANGED <<reader, received>>
             ELSE /\ reader' = [reader EXCEPT !.got = reader.got \o SubSeq(Head(buffers), 1, n),
                                              !.need = reader.need - n]
                  /\ UNCHANGED received
    BY DEF ReadHeader
  <2>6. PICK G : G = reader.got \o SubSeq(Head(buffers), 1, n)
    OBVIOUS
  <2>7. PICK r : r \in Nat /\ r = Len(received)
    <3>1. received \in Seq(Message)
      BY ONLY <2>1 DEF WireTypes
    <3>2. Len(received) \in Nat
      BY ONLY <3>1
    <3> QED
      BY ONLY <3>2
  <2>8. PICK b : b \in Nat /\ b = start[r + 1]
    <3>1. r + 1 \in Nat
      BY ONLY <2>7
    <3>2. start[r + 1] \in Nat
      BY ONLY <3>1, start \in [Nat -> Nat]
    <3> QED
      BY ONLY <3>2
  <2>9. PICK h : h \in {2, 4} /\ h = HL(channel) /\ h = HeaderLen /\ (channel # "control" => h = 2)
    BY ONLY TRUE DEF HL, HeaderLen
  <2>10. InHeader(S, b, cut[1])
    BY ONLY <2>2, <2>4, <2>7, <2>8 DEF Position
  <2>11. n \in Nat
    BY ONLY <2>9, n \in 1..HeaderLen
  <2>12. /\ G \in Seq(Octets) /\ Len(G) = Len(reader.got) + n /\ Len(reader.got) \in Nat
         /\ Copied(S, b, G)
         /\ n > 0 /\ n <= reader.need /\ cut[1] + n <= cut[Len(buffers) + 1]
    <3>1. cut[1] = b + Len(reader.got) /\ Copied(S, b, reader.got)
      BY ONLY <2>10 DEF InHeader, Copied
    <3>2. UNCHANGED <<channel, ended, messages, shifted>>
      BY ONLY <2>4
    <3> QED
      <4>1. Placed(all, S, start, cut) /\ CanRead(n) /\ buffers' = Rest(n) /\ b \in Nat /\ WireTypes
        BY ONLY <2>1, <2>2, <2>5, <2>8
      <4>2. Gets(S, b, cut, n, G)
        BY ONLY <2>3, <2>6, <2>11, <3>1, <3>2, <4>1, Piece
      <4> QED
        BY ONLY <4>2 DEF Gets
  <2>13. /\ reader.need > 0 /\ Len(reader.got) + reader.need = h /\ cut[1] = b + Len(reader.got)
         /\ Once => reader.got = <<>>
    BY ONLY <2>9, <2>10 DEF InHeader
  <2>14. PICK w : w \in Nat /\ w = cut[Len(buffers) + 1]
    <3>1. buffers \in Seq(Seq(Octets))
      BY ONLY <2>1 DEF WireTypes
    <3>2. Len(buffers) + 1 \in Nat
      BY ONLY <3>1
    <3> QED
      BY ONLY <2>3, <3>2
  <2>15. PICK pos : pos = cut[1] + n
    OBVIOUS
  <2>16. received \in Seq(Message)
    BY ONLY <2>1 DEF WireTypes
  <2>17. PICK g, need : g \in Nat /\ g = Len(reader.got) /\ need \in Nat /\ need = reader.need
    <3>1. reader.need \in Nat
      BY ONLY <2>1 DEF WireTypes, ReaderState
    <3> QED
      BY ONLY <2>12, <3>1
  <2>18. pos = b + g + n /\ pos <= w /\ g + need = h /\ n <= need /\ n > 0 /\ Len(G) = g + n
    BY ONLY <2>12, <2>13, <2>14, <2>15, <2>17
  <2>21. /\ b \in Nat /\ g \in Nat /\ n \in Nat /\ need \in Nat /\ h \in Nat
         /\ pos = b + g + n /\ g + need = h /\ n <= need /\ n > 0
    BY ONLY <2>8, <2>9, <2>11, <2>17, <2>18
  <2>19. CASE n = need
    <3>1. HeaderRead(G)
      BY ONLY <2>5, <2>6, <2>17, <2>19
    <3>2. Len(G) = h /\ pos = b + h
      <4>1. g + n = h /\ b + g + n = b + h
        BY ONLY <2>19, <2>21
      <4> QED
        BY ONLY <2>18, <4>1
    <3>3. /\ Laid(channel, all, S, start) /\ Fits(channel, all) /\ Written(all, start, w)
      BY ONLY <2>2, <2>14 DEF Placed
    <3>4. ReadInOrder
      BY ONLY <2>2 DEF Position, ReadInOrder
    <3>6. b = start[Len(received) + 1] /\ b + HL(channel) <= w /\ Len(G) = HL(channel)
      BY ONLY <2>7, <2>8, <2>9, <2>18, <3>2
    <3>7. shifted => Len(received) < Len(messages)
      BY ONLY <2>1
    <3>8. UNCHANGED <<channel, ended, messages, shifted>>
      BY ONLY <2>4
    <3>9. /\ reader' \in ReaderState /\ received' \in Seq(Message)
          /\ Position(all, S, start, b + HL(channel))'
      BY ONLY <2>1, <2>3, <2>12, <2>14, <3>1, <3>3, <3>4, <3>6, <3>7, <3>8, HeaderDone
    <3>10. b + HL(channel') = pos
      BY ONLY <2>4, <2>9, <3>2
    <3>11. Position(all, S, start, pos)'
      BY ONLY <3>9, <3>10
    <3> QED
      BY ONLY <2>1, <2>2, <2>3, <2>4, <2>5, <2>11, <2>15, <3>9, <3>11, Advances
  <2>20. CASE n # need
    <3>12. PICK k1 : k1 \in 1..Len(all) /\ start[k1] = b /\ k1 = r + 1
      <4>1. /\ Laid(channel, all, S, start) /\ Fits(channel, all) /\ Written(all, start, w) /\ ReadInOrder
        BY ONLY <2>2, <2>14 DEF Placed, Position, ReadInOrder
      <4>2. messages \in Seq(Message) /\ channel \in Channels
        BY ONLY <2>1 DEF WireTypes
      <4>3. PICK M : M \in Nat /\ M = Len(messages) /\ r <= M
        <5>1. Len(messages) \in Nat
          BY ONLY <4>2
        <5>2. r <= Len(messages)
          BY ONLY <2>7, <4>1 DEF ReadInOrder
        <5> QED
          BY ONLY <5>1, <5>2
      <4>4. r + 1 \in 1..(M + 1) /\ (shifted => r + 1 <= M)
        <5>1. shifted => r < M
          BY ONLY <2>1, <2>7, <4>3
        <5>2. r \in Nat /\ M \in Nat /\ r <= M
          BY ONLY <2>7, <4>3
        <5>3. r + 1 \in 1..(M + 1) /\ (r < M => r + 1 <= M)
          BY ONLY <5>2
        <5> QED
          BY ONLY <5>1, <5>3
      <4>5. b < w
        <5>1. PICK e : e = b + g + n /\ e <= w
          BY ONLY <2>18
        <5>2. b \in Nat /\ g \in Nat /\ n \in Nat /\ n > 0
          BY ONLY <2>21
        <5>3. e \in Nat /\ b < e
          BY ONLY <5>1, <5>2
        <5>4. w \in Nat /\ e <= w /\ b \in Nat
          BY ONLY <2>14, <5>1, <5>2
        <5> QED
          BY ONLY <5>3, <5>4
      <4>6. PICK k1 : k1 = r + 1
        OBVIOUS
      <4>7. /\ k1 \in 1..(Len(messages) + 1) /\ (shifted => k1 <= Len(messages)) /\ start[k1] < w
        BY ONLY <2>8, <4>3, <4>4, <4>5, <4>6
      <4>8. k1 <= Len(all)
        BY ONLY <2>3, <2>14, <4>1, <4>2, <4>7, NextMessage
      <4>9. k1 \in 1..Len(all)
        <5>1. Len(all) \in Nat
          BY ONLY <2>3
        <5> QED
          BY ONLY <2>7, <4>6, <4>8, <5>1
      <4> QED
        BY ONLY <2>8, <4>6, <4>9
    <3>1. ~Once
      <4> SUFFICES ASSUME Once PROVE FALSE
        OBVIOUS
      <4>1. channel # "control" /\ reader.got = <<>> /\ h = 2
        BY ONLY <2>9, <2>13, Once DEF Once
      <4>2. buffers # <<>> /\ (n = Len(Head(buffers)) \/ n = reader.need) /\ n <= Len(Head(buffers))
        <5>1. buffers # <<>> /\ n \in 1..Len(Head(buffers)) /\ (n = Len(Head(buffers)) \/ n = reader.need)
          BY ONLY <2>5, <4>1 DEF CanRead
        <5> QED
          BY ONLY <2>11, <5>1
      <4>3. PICK q : q \in Nat /\ q = Len(buffers[1]) /\ n = q
        <5>1. Head(buffers) = buffers[1]
          OBVIOUS
        <5>2. n = Len(buffers[1])
          BY ONLY <2>17, <2>20, <4>2, <5>1
        <5> QED
          BY ONLY <2>11, <5>2
      <4>4. g = 0 /\ cut[1] = b
        <5>1. g = 0
          <6>1. Len(<<>>) = 0
            OBVIOUS
          <6> QED
            BY ONLY <2>17, <4>1, <6>1
        <5>2. cut[1] = b + g
          BY ONLY <2>13, <2>17
        <5>3. b + 0 = b
          BY ONLY <2>21
        <5> QED
          BY ONLY <5>1, <5>2, <5>3
      <4>5. PICK B : B \in Nat /\ B = Len(buffers) /\ 1 \in 1..B
        <5>1. buffers \in Seq(Seq(Octets))
          BY ONLY <2>1 DEF WireTypes
        <5>2. Len(buffers) \in Nat /\ Len(buffers) # 0
          BY ONLY <4>2, <5>1, EmptySeq
        <5>3. 1 \in 1..Len(buffers)
          BY ONLY <5>2
        <5> QED
          BY ONLY <5>2, <5>3
      <4>6. b < cut[2]
        <5>1. cut[1 + 1] = cut[1] + Len(buffers[1])
          BY ONLY <2>2, <4>5 DEF Placed, Cuts
        <5>2. 1 + 1 = 2
          OBVIOUS
        <5>3. cut[2] = b + n
          BY ONLY <4>3, <4>4, <5>1, <5>2
        <5>4. b < b + n
          BY ONLY <2>21
        <5> QED
          BY ONLY <5>3, <5>4
      <4>7. k1 \in 1..Len(all) /\ start[k1] = b
        BY ONLY <3>12
      <4>8. Len(buffers[1]) > 1
        <5>1. Starts(channel, all, start, buffers, cut)
          BY ONLY <2>2 DEF Placed
        <5>2. cut[1] <= start[k1] /\ start[k1] < cut[1 + 1]
          <6>1. 1 + 1 = 2 /\ b <= b
            BY ONLY <2>21
          <6> QED
            BY ONLY <4>4, <4>6, <4>7, <6>1
        <5> QED
          BY ONLY <4>1, <4>5, <4>7, <5>1, <5>2 DEF Starts
      <4>9. q > 1 /\ n = q /\ n # need /\ h = 2
        BY ONLY <2>20, <4>1, <4>3, <4>8
      <4> QED
        BY ONLY <2>21, <4>9
    <3>2. reader' = [reader EXCEPT !.got = G, !.need = need - n] /\ received' = received
      BY ONLY <2>5, <2>6, <2>17, <2>20, <3>1 DEF Once
    <3>3. need - n \in Nat /\ need - n > 0 /\ (g + n) + (need - n) = h /\ pos = b + (g + n)
      BY ONLY <2>20, <2>21
    <3>4. reader \in ReaderState
      BY ONLY <2>1 DEF WireTypes
    <3>5. /\ reader' \in ReaderState /\ reader'.got = G /\ reader'.need = need - n
          /\ reader'.part = "header" /\ reader'.first = reader.first
      <4>1. reader' = [part |-> "header", need |-> need - n, got |-> G, cmd |-> reader.cmd, first |-> reader.first]
            /\ reader.cmd \in Octets /\ reader.first \in BOOLEAN
        BY ONLY <2>4, <3>2, <3>4 DEF ReaderState
      <4> QED
        BY ONLY <2>12, <3>3, <4>1 DEF ReaderState
    <3>6. channel' = channel /\ ended' = ended /\ messages' = messages
      BY ONLY <2>4
    <3>7. InHeader(S, b, pos)'
      <4>1. ~Once'
        BY ONLY <3>1, <3>5, <3>6 DEF Once
      <4>2. HL(channel') = h
        BY ONLY <2>9, <3>6
      <4>3. \A i \in 1..Len(G) : G[i] = S[b + i]
        BY ONLY <2>12 DEF Copied
      <4>4. Len(G) + (need - n) = h /\ pos = b + Len(G)
        BY ONLY <2>18, <3>3
      <4> QED
        BY ONLY <3>3, <3>5, <4>1, <4>2, <4>3, <4>4 DEF InHeader
    <3>8. Position(all, S, start, pos)'
      BY ONLY <2>2, <2>7, <2>8, <3>2, <3>5, <3>6, <3>7 DEF Position
    <3>9. received' \in Seq(Message)
      BY ONLY <2>16, <3>2
    <3> QED
      BY ONLY <2>1, <2>2, <2>3, <2>4, <2>5, <2>11, <2>15, <3>5, <3>8, <3>9, Advances
  <2> QED
    BY ONLY <2>19, <2>20
<1> QED
  BY <1>1, <1>2

\* Octets of a body are read.
LEMMA ReadBodyKeeps ==
  ASSUME W_Inv, ReadBody
  PROVE  W_Inv'
<1>1. CASE Past
  <2>1. shifted' = TRUE /\ messages' = messages
    BY <1>1 DEF ReadBody, Past
  <2>2. \/ UNCHANGED received
        \/ \E x : received' = Append(received, x)
    BY DEF ReadBody
  <2> QED
    BY ONLY <1>1, <2>1, <2>2, PastStays
<1>2. CASE ~Past
  <2>1. WireTypes /\ (shifted => Len(received) < Len(messages))
    BY <1>2, AtReader
  <2>2. PICK all \in Seq(Message), S \in [Nat -> Octets], start \in [Nat -> Nat], cut \in [Nat -> Nat] :
           Placed(all, S, start, cut) /\ Position(all, S, start, cut[1])
    BY <1>2, AtReader
  <2>3. all \in Seq(Message) /\ S \in [Nat -> Octets] /\ start \in [Nat -> Nat] /\ cut \in [Nat -> Nat]
    OBVIOUS
  <2>4. reader.part = "body" /\ UNCHANGED <<channel, ended, messages, shifted>>
    BY DEF ReadBody
  <2>5. PICK n \in 1..reader.need :
          /\ CanRead(n) /\ buffers' = Rest(n)
          /\ IF n = reader.need
             THEN /\ received' = Append(received, [cmd |-> reader.cmd,
                                                   body |-> reader.got \o SubSeq(Head(buffers), 1, n)])
                  /\ reader' = Header(FALSE)
             ELSE /\ reader' = [reader EXCEPT !.got = reader.got \o SubSeq(Head(buffers), 1, n),
                                              !.need = reader.need - n]
                  /\ UNCHANGED received
    BY DEF ReadBody
  <2>6. PICK G : G = reader.got \o SubSeq(Head(buffers), 1, n)
    OBVIOUS
  <2>7. PICK r : r \in Nat /\ r = Len(received)
    <3>1. received \in Seq(Message)
      BY ONLY <2>1 DEF WireTypes
    <3>2. Len(received) \in Nat
      BY ONLY <3>1
    <3> QED
      BY ONLY <3>2
  <2>8. PICK b : b \in Nat /\ b = start[r + 1]
    <3>1. r + 1 \in Nat
      BY ONLY <2>7
    <3>2. start[r + 1] \in Nat
      BY ONLY <3>1, start \in [Nat -> Nat]
    <3> QED
      BY ONLY <3>2
  <2>9. PICK h : h \in {2, 4} /\ h \in Nat /\ h > 0 /\ h = HL(channel)
    <3>1. HL(channel) \in {2, 4}
      BY ONLY TRUE DEF HL
    <3>2. HL(channel) \in Nat /\ HL(channel) > 0
      BY ONLY TRUE DEF HL
    <3> QED
      BY ONLY <3>1, <3>2
  <2>10. PICK a : a = all[r + 1]
    OBVIOUS
  <2>11. PICK need : need \in Nat /\ need = reader.need
    <3>1. reader.need \in Nat
      BY ONLY <2>1 DEF WireTypes, ReaderState
    <3> QED
      BY ONLY <3>1
  <2>12. n \in Nat /\ n \in 1..need
    BY ONLY <2>11, n \in 1..reader.need
  <2>13. InBody(a, S, b, cut[1]) /\ Len(received) < Len(all) /\ ReadInOrder
    BY ONLY <2>2, <2>4, <2>7, <2>8, <2>10 DEF Position, ReadInOrder
  <2>14. channel' = channel /\ ended' = ended /\ messages' = messages
         /\ UNCHANGED <<channel, ended, messages>>
    BY ONLY <2>4
  <2>15. Gets(S, b + h, cut, n, G)
    <3>1. cut[1] = (b + h) + Len(reader.got) /\ Copied(S, b + h, reader.got)
      BY ONLY <2>9, <2>13 DEF InBody, Copied
    <3>2. Placed(all, S, start, cut) /\ CanRead(n) /\ buffers' = Rest(n) /\ WireTypes
      BY ONLY <2>1, <2>2, <2>5
    <3>3. PICK base : base \in Nat /\ base = b + h
      <4>1. b \in Nat /\ h \in Nat
        BY ONLY <2>8, <2>9
      <4>2. b + h \in Nat
        BY ONLY <4>1
      <4> QED
        BY ONLY <4>2
    <3>4. Gets(S, base, cut, n, G)
      BY ONLY <2>3, <2>4, <2>6, <2>12, <3>1, <3>2, <3>3, Piece
    <3> QED
      BY ONLY <3>3, <3>4
  <2>16. PICK g : g \in Nat /\ g = Len(reader.got)
    BY ONLY <2>15 DEF Gets
  <2>17. /\ G \in Seq(Octets) /\ Len(G) = g + n /\ Copied(S, b + h, G)
         /\ cut[1] + n <= cut[Len(buffers) + 1]
    BY ONLY <2>15, <2>16 DEF Gets
  <2>18. /\ need > 0 /\ g + need = Len(a.body) /\ cut[1] = b + h + g /\ reader.cmd = a.cmd
    BY ONLY <2>9, <2>11, <2>13, <2>16 DEF InBody
  <2>19. PICK w : w \in Nat /\ w = cut[Len(buffers) + 1]
    <3>1. buffers \in Seq(Seq(Octets))
      BY ONLY <2>1 DEF WireTypes
    <3>2. Len(buffers) + 1 \in Nat
      BY ONLY <3>1
    <3> QED
      BY ONLY <2>3, <3>2
  <2>20. PICK pos : pos = cut[1] + n
    OBVIOUS
  <2>21. PICK h2 : h2 \in Nat /\ h2 = h /\ h2 > 0
    <3>1. h \in Nat /\ h > 0
      BY ONLY <2>9
    <3> QED
      BY ONLY <3>1
  <2>22. pos = b + h2 + g + n /\ pos <= w /\ b < w
    <3>1. pos = b + h2 + g + n /\ pos <= w
      BY ONLY <2>17, <2>18, <2>19, <2>20, <2>21
    <3>2. n > 0 /\ n \in Nat /\ g \in Nat /\ b \in Nat /\ w \in Nat
      BY ONLY <2>8, <2>12, <2>16, <2>19
    <3> QED
      BY ONLY <2>21, <3>1, <3>2
  <2>23. /\ Laid(channel, all, S, start) /\ Fits(channel, all) /\ Written(all, start, w)
    BY ONLY <2>2, <2>19 DEF Placed
  <2>24. messages \in Seq(Message) /\ received \in Seq(Message) /\ channel \in Channels /\ reader \in ReaderState
    BY ONLY <2>1 DEF WireTypes
  <2>25. PICK k : k = r + 1
    OBVIOUS
  <2>26. NextIs(channel, S, b, start[k + 1], a) /\ k <= Len(all)
    <3>1. k \in 1..(Len(messages) + 1)
      <4>1. Len(messages) \in Nat
        BY ONLY <2>24
      <4>2. r <= Len(messages)
        BY ONLY <2>7, <2>13 DEF ReadInOrder
      <4> QED
        BY ONLY <2>7, <2>25, <4>1, <4>2
    <3>2. start[k] < w /\ b = start[k] /\ a = all[k]
      BY ONLY <2>8, <2>10, <2>22, <2>25
    <3>3. k <= Len(all) /\ NextIs(channel, S, start[k], start[k + 1], all[k])
      <4>1. shifted => k <= Len(messages)
        <5>1. Len(messages) \in Nat
          BY ONLY <2>24
        <5> QED
          BY ONLY <2>1, <2>7, <2>25, <5>1
      <4> QED
        BY ONLY <2>3, <2>19, <2>23, <2>24, <3>1, <3>2, <4>1, NextMessage
    <3> QED
      BY ONLY <3>2, <3>3
  <2>27. PICK body : body = a.body /\ body \in Seq(Octets) /\ a = [cmd |-> a.cmd, body |-> body]
    BY ONLY <2>26 DEF NextIs, Message
  <2>28. Copied(S, b + h, body) /\ start[k + 1] = b + h + Len(body)
    BY ONLY <2>9, <2>26, <2>27 DEF NextIs, Copied
  <2>29. CASE n = need
    <3>1. Len(G) = Len(body)
      BY ONLY <2>17, <2>18, <2>27, <2>29
    <3>2. G = body
      <4>1. \A i \in 1..Len(G) : G[i] = body[i]
        BY ONLY <2>17, <2>28, <3>1 DEF Copied
      <4> QED
        BY ONLY <2>17, <2>27, <3>1, <4>1, SameOctets
    <3>3. received' = Append(received, all[k]) /\ reader' = Header(FALSE)
      <4>1. received' = Append(received, [cmd |-> reader.cmd, body |-> G]) /\ reader' = Header(FALSE)
        BY ONLY <2>5, <2>6, <2>11, <2>29
      <4> QED
        BY ONLY <2>10, <2>18, <2>25, <2>27, <3>2, <4>1
    <3>4. start[k + 1] = pos
      <4>1. Len(body) = g + n
        BY ONLY <2>17, <3>1
      <4>2. b \in Nat /\ h2 \in Nat /\ g \in Nat /\ n \in Nat
        BY ONLY <2>8, <2>12, <2>16, <2>21
      <4>3. b + h2 + (g + n) = b + h2 + g + n
        BY ONLY <4>2
      <4> QED
        BY ONLY <2>21, <2>22, <2>28, <4>1, <4>3
    <3>5. start[k + 1] <= w /\ k = Len(received) + 1
      BY ONLY <2>7, <2>22, <2>25, <3>4
    <3>6. reader' \in ReaderState /\ received' \in Seq(Message) /\ Position(all, S, start, start[k + 1])'
      BY ONLY <2>1, <2>3, <2>13, <2>14, <2>19, <2>23, <2>26, <3>3, <3>5, Finished
    <3>7. Position(all, S, start, pos)'
      BY ONLY <3>4, <3>6
    <3> QED
      BY ONLY <2>1, <2>2, <2>3, <2>4, <2>5, <2>12, <2>20, <3>6, <3>7, Advances
  <2>30. CASE n # need
    <3>1. reader' = [reader EXCEPT !.got = G, !.need = need - n] /\ received' = received
      BY ONLY <2>5, <2>6, <2>11, <2>30
    <3>2. need - n \in Nat /\ need - n > 0 /\ (g + n) + (need - n) = g + need /\ b + h2 + (g + n) = b + h2 + g + n
      <4>1. b \in Nat /\ h2 \in Nat /\ g \in Nat /\ n \in Nat /\ need \in Nat
        BY ONLY <2>8, <2>11, <2>12, <2>16, <2>21
      <4>2. n \in 1..need /\ n # need
        BY ONLY <2>12, <2>30
      <4> QED
        BY ONLY <4>1, <4>2
    <3>3. reader' = [part |-> "body", need |-> need - n, got |-> G, cmd |-> reader.cmd, first |-> reader.first]
          /\ reader.cmd \in Octets /\ reader.first \in BOOLEAN
      BY ONLY <2>4, <2>24, <3>1 DEF ReaderState
    <3>4. /\ reader' \in ReaderState /\ reader'.got = G /\ reader'.need = need - n
          /\ reader'.part = "body" /\ reader'.cmd = a.cmd
      BY ONLY <2>17, <2>18, <3>2, <3>3 DEF ReaderState
    <3>5. InBody(a, S, b, pos)'
      <4>1. HL(channel') = h
        BY ONLY <2>9, <2>14
      <4>2. Len(G) + (need - n) = Len(a.body) /\ pos = b + h + Len(G)
        BY ONLY <2>17, <2>18, <2>21, <2>22, <3>2
      <4>3. \A i \in 1..Len(G) : G[i] = S[b + h + i]
        BY ONLY <2>17 DEF Copied
      <4> QED
        BY ONLY <3>2, <3>4, <4>1, <4>2, <4>3 DEF InBody
    <3>6. Position(all, S, start, pos)'
      BY ONLY <2>7, <2>8, <2>10, <2>13, <2>14, <3>1, <3>4, <3>5 DEF Position, ReadInOrder
    <3>7. received' \in Seq(Message)
      BY ONLY <2>24, <3>1
    <3> QED
      BY ONLY <2>1, <2>2, <2>3, <2>4, <2>5, <2>12, <2>20, <3>4, <3>6, <3>7, Advances
  <2> QED
    BY ONLY <2>29, <2>30
<1> QED
  BY <1>1, <1>2

\* The reader gives up.
LEMMA GivesUp ==
  ASSUME W_Inv, ~Past, NEW p, p \in {"eof", "failed"}, reader' = [reader EXCEPT !.part = p],
         p = "eof" => ended = TRUE /\ received = messages,
         UNCHANGED <<channel, buffers, ended, messages, received, shifted>>
  PROVE  W_Inv'
<1>1. WireTypes
  BY ONLY W_Inv, ~Past, Laying
<1>2. PICK all \in Seq(Message), S \in [Nat -> Octets], start \in [Nat -> Nat], cut \in [Nat -> Nat] :
         Placed(all, S, start, cut) /\ Position(all, S, start, cut[1])
  BY ONLY W_Inv, ~Past, AtReader
<1>3. /\ channel' = channel /\ buffers' = buffers /\ ended' = ended /\ messages' = messages
      /\ received' = received /\ shifted' = shifted
  BY ONLY UNCHANGED <<channel, buffers, ended, messages, received, shifted>>
<1>4. reader \in ReaderState
  BY ONLY <1>1 DEF WireTypes
<1>5. reader' \in ReaderState /\ reader'.part = p
  BY ONLY <1>4, p \in {"eof", "failed"}, reader' = [reader EXCEPT !.part = p] DEF ReaderState
<1>6. Position(all, S, start, cut[1])'
  <2>1. /\ Len(received') <= Len(messages')
        /\ \A i \in 1..Len(received') : received'[i] = messages'[i]
    BY ONLY <1>2, <1>3 DEF Position
  <2>2. reader'.part # "header" /\ reader'.part # "body"
    BY ONLY <1>5, p \in {"eof", "failed"}
  <2>3. reader'.part = "eof" => ended' /\ received' = messages'
    BY ONLY <1>3, <1>5, p = "eof" => ended = TRUE /\ received = messages
  <2> QED
    BY ONLY <2>1, <2>2, <2>3 DEF Position
<1>7. Placed(all, S, start, cut)'
  BY ONLY <1>2, <1>3 DEF Placed, Written
<1>8. Layout(all, S, start, cut)'
  BY ONLY <1>6, <1>7 DEF Layout, Placed
<1>9. WireTypes'
  BY ONLY <1>1, <1>3, <1>5 DEF WireTypes
<1>10. all \in Seq(Message) /\ S \in [Nat -> Octets] /\ start \in [Nat -> Nat] /\ cut \in [Nat -> Nat]
  OBVIOUS
<1> QED
  BY ONLY <1>8, <1>9, <1>10 DEF W_Inv

\* Between two messages the stream ends behind the last.
LEMMA ReadEndsKeeps ==
  ASSUME W_Inv, ReadEnds
  PROVE  W_Inv'
<1>1. CASE Past
  <2>1. shifted' = TRUE /\ messages' = messages /\ received' = received
    BY <1>1 DEF ReadEnds, Past
  <2> QED
    BY ONLY <1>1, <2>1, PastStays
<1>2. CASE ~Past
  <2>1. WireTypes
    BY <1>2, AtReader
  <2>2. PICK all \in Seq(Message), S \in [Nat -> Octets], start \in [Nat -> Nat], cut \in [Nat -> Nat] :
           Placed(all, S, start, cut) /\ Position(all, S, start, cut[1])
    BY <1>2, AtReader
  <2>3. all \in Seq(Message) /\ S \in [Nat -> Octets] /\ start \in [Nat -> Nat] /\ cut \in [Nat -> Nat]
    OBVIOUS
  <2>4. /\ buffers = <<>> /\ ended = TRUE
        /\ reader' = [reader EXCEPT !.part = IF reader.part = "header" /\ reader.got = <<>> THEN "eof"
                                             ELSE "failed"]
        /\ UNCHANGED <<channel, buffers, ended, messages, received, shifted>>
    BY <2>1 DEF ReadEnds, WireTypes
  <2>5. /\ channel \in Channels /\ messages \in Seq(Message) /\ received \in Seq(Message)
        /\ reader \in ReaderState
    BY ONLY <2>1 DEF WireTypes
  <2>7. PICK r : r \in Nat /\ r = Len(received)
    <3>1. Len(received) \in Nat
      BY ONLY <2>5
    <3> QED
      BY ONLY <3>1
  <2>8. PICK M : M \in Nat /\ M = Len(messages)
    <3>1. Len(messages) \in Nat
      BY ONLY <2>5
    <3> QED
      BY ONLY <3>1
  <2>9. PICK b : b \in Nat /\ b = start[r + 1]
    <3>1. r + 1 \in Nat
      BY ONLY <2>7
    <3>2. start[r + 1] \in Nat
      BY ONLY <3>1, start \in [Nat -> Nat]
    <3> QED
      BY ONLY <3>2
  <2>10. PICK w : w \in Nat /\ w = cut[1]
    BY ONLY cut \in [Nat -> Nat]
  <2>11. Laid(channel, all, S, start) /\ Fits(channel, all) /\ Written(all, start, w)
    <3>1. Len(buffers) + 1 = 1
      BY ONLY <2>4
    <3> QED
      BY ONLY <2>2, <2>10, <3>1 DEF Placed
  <2>12. r <= M /\ \A i \in 1..r : received[i] = messages[i]
    BY ONLY <2>2, <2>7, <2>8 DEF Position
  <2>13. PICK L : L \in Nat /\ L = Len(all)
    <3>1. Len(all) \in Nat
      BY ONLY all \in Seq(Message)
    <3> QED
      BY ONLY <3>1
  <2>14. M <= L /\ \A k \in 1..(L + 1) : start[k] = w => ~(k <= M)
    <3>1. Len(messages) <= Len(all) /\ \A k \in 1..(Len(all) + 1) : start[k] = w => ~(k <= Len(messages))
      <4>1. messages \in Seq(Message) /\ w \in Nat
        BY ONLY <2>5, <2>10
      <4> QED
        BY ONLY <2>3, <2>11, <4>1, WriterAt
    <3>2. PICK K : K = L + 1
      OBVIOUS
    <3>3. M <= L /\ \A k \in 1..K : start[k] = w => ~(k <= M)
      BY ONLY <2>8, <2>13, <3>1, <3>2
    <3> QED
      BY ONLY <3>2, <3>3
  <2>15. r \in Nat /\ M \in Nat /\ L \in Nat /\ r <= M /\ M <= L
    BY ONLY <2>7, <2>8, <2>12, <2>13, <2>14
  <2>16. r + 1 \in 1..(L + 1) /\ r + 1 \in 1..(M + 1)
    BY ONLY <2>15
  <2>17. reader.part = "header" /\ reader.got = <<>> => r = M
    <3> SUFFICES ASSUME reader.part = "header", reader.got = <<>> PROVE r = M
      OBVIOUS
    <3>1. w = b
      <4>1. w = b + Len(reader.got)
        BY ONLY <2>2, <2>7, <2>9, <2>10, reader.part = "header" DEF Position, InHeader
      <4>2. Len(reader.got) = 0
        BY ONLY reader.got = <<>>
      <4>3. b \in Nat /\ w = b + 0
        BY ONLY <2>9, <4>1, <4>2
      <4> QED
        BY ONLY <4>3
    <3>2. ~(r + 1 <= M)
      BY ONLY <2>9, <2>14, <2>16, <3>1
    <3> QED
      BY ONLY <2>15, <3>2
  <2>18. r = M => received = messages
    BY ONLY <2>5, <2>7, <2>8, <2>12, SameOctets
  <2>19. PICK p : p = IF reader.part = "header" /\ reader.got = <<>> THEN "eof" ELSE "failed"
    OBVIOUS
  <2>20. /\ p \in {"eof", "failed"} /\ reader' = [reader EXCEPT !.part = p]
         /\ (p = "eof" => ended = TRUE /\ received = messages)
    BY ONLY <2>4, <2>17, <2>18, <2>19
  <2> QED
    BY ONLY W_Inv, <1>2, <2>4, <2>20, GivesUp
<1> QED
  BY <1>1, <1>2

\* A Read fails.
LEMMA ReadBreaksKeeps ==
  ASSUME W_Inv, ReadBreaks
  PROVE  W_Inv'
<1>1. CASE Past
  <2>1. shifted' = TRUE /\ messages' = messages /\ received' = received
    BY <1>1 DEF ReadBreaks, Past
  <2> QED
    BY ONLY <1>1, <2>1, PastStays
<1>2. CASE ~Past
  <2>1. /\ "failed" \in {"eof", "failed"} /\ reader' = [reader EXCEPT !.part = "failed"]
        /\ ("failed" = "eof" => ended = TRUE /\ received = messages)
        /\ UNCHANGED <<channel, buffers, ended, messages, received, shifted>>
    BY DEF ReadBreaks
  <2>2. PICK p : p = "failed"
    OBVIOUS
  <2>3. /\ p \in {"eof", "failed"} /\ reader' = [reader EXCEPT !.part = p]
        /\ (p = "eof" => ended = TRUE /\ received = messages)
    BY ONLY <2>1, <2>2
  <2>4. UNCHANGED <<channel, buffers, ended, messages, received, shifted>>
    BY ONLY <2>1
  <2> QED
    BY ONLY W_Inv, <1>2, <2>3, <2>4, GivesUp
<1> QED
  BY <1>1, <1>2

\* What the reader has is the beginning of what was written, and nothing less
\* where the stream ends between two messages.
LEMMA InvariantSays ==
  ASSUME W_Inv
  PROVE  WireInv
<1>1. CASE Past
  BY ONLY <1>1 DEF Past, WireInv, ReadAsWritten, NothingLeftBehind
<1>2. CASE ~Past
  <2>1. WireTypes
    BY <1>2, AtReader
  <2>2. PICK all \in Seq(Message), S \in [Nat -> Octets], start \in [Nat -> Nat], cut \in [Nat -> Nat] :
           Placed(all, S, start, cut) /\ Position(all, S, start, cut[1])
    BY <1>2, AtReader
  <2>3. messages \in Seq(Message) /\ received \in Seq(Message)
    BY ONLY <2>1 DEF WireTypes
  <2>4. /\ Len(received) <= Len(messages)
        /\ \A i \in 1..Len(received) : received[i] = messages[i]
    BY ONLY <2>2 DEF Position
  <2>5. IsPrefix(received, messages)
    <3>1. PICK r : r \in Nat /\ r = Len(received)
      <4>1. Len(received) \in Nat
        BY ONLY <2>3
      <4> QED
        BY ONLY <4>1
    <3>2. PICK p : p = SubSeq(messages, 1, r)
      OBVIOUS
    <3>3. /\ p \in Seq(Message) /\ Len(p) = Len(received)
          /\ \A i \in 1..Len(received) : p[i] = messages[i]
      <4>1. messages \in Seq(Message) /\ r \in 0..Len(messages)
        <5>1. PICK M : M \in Nat /\ M = Len(messages)
          <6>1. Len(messages) \in Nat
            BY ONLY <2>3
          <6> QED
            BY ONLY <6>1
        <5>2. r \in 0..M
          BY ONLY <2>4, <3>1, <5>1
        <5> QED
          BY ONLY <2>3, <5>1, <5>2
      <4>2. /\ SubSeq(messages, 1, r) \in Seq(Message) /\ Len(SubSeq(messages, 1, r)) = r
            /\ \A i \in 1..r : SubSeq(messages, 1, r)[i] = messages[i]
        BY ONLY <4>1, Beginning
      <4> QED
        BY ONLY <3>1, <3>2, <4>2
    <3>4. PICK q : q = SubSeq(received, 1, r)
      OBVIOUS
    <3>5. /\ q \in Seq(Message) /\ Len(q) = r
          /\ \A i \in 1..r : q[i] = received[i]
      <4>1. received \in Seq(Message) /\ r \in 0..Len(received)
        BY ONLY <2>3, <3>1
      <4>2. /\ SubSeq(received, 1, r) \in Seq(Message) /\ Len(SubSeq(received, 1, r)) = r
            /\ \A i \in 1..r : SubSeq(received, 1, r)[i] = received[i]
        BY ONLY <4>1, Beginning
      <4> QED
        BY ONLY <3>4, <4>2
    <3>6. Len(q) = Len(p) /\ \A i \in 1..Len(q) : q[i] = p[i]
      BY ONLY <2>4, <3>1, <3>3, <3>5
    <3>7. q \in Seq(Message) /\ p \in Seq(Message)
      BY ONLY <3>3, <3>5
    <3>8. q = p
      BY ONLY <3>6, <3>7, SameOctets
    <3>9. Len(received) <= Len(messages) /\ SubSeq(received, 1, r) = SubSeq(messages, 1, r)
      BY ONLY <2>4, <3>2, <3>4, <3>8
    <3> QED
      BY ONLY <3>1, <3>9 DEF IsPrefix
  <2>6. reader.part = "eof" => received = messages
    BY ONLY <2>2 DEF Position
  <2>7. reader.part = "eof" => IsPrefix(messages, received)
    <3>1. Len(messages) \in Nat
      BY ONLY <2>3
    <3>2. Len(messages) <= Len(messages)
      BY ONLY <3>1
    <3>3. IsPrefix(messages, messages)
      BY ONLY <3>2 DEF IsPrefix
    <3> QED
      BY ONLY <2>6, <3>3
  <2> QED
    BY ONLY <2>5, <2>7 DEF WireInv, ReadAsWritten, NothingLeftBehind
<1> QED
  BY <1>1, <1>2

\* The peers agree on the messages, however the stream is divided and wherever it
\* breaks (cs.go:82-123, net.go:73-90, client.go:108-126, 183-201).
THEOREM StreamKept == WireSpec => []WireInv
<1>1. WireInit => W_Inv
  BY WireStarts
<1>2. W_Inv /\ [WireNext]_wireVars => W_Inv'
  <2> SUFFICES ASSUME W_Inv, [WireNext]_wireVars PROVE W_Inv'
    OBVIOUS
  <2>1. CASE \E m \in Messages : WriteMessage(m)
    BY <2>1, WriteMessageKeeps
  <2>2. CASE \E m \in Messages : WriteMessageFails(m)
    BY <2>2, WriteMessageFailsKeeps
  <2>3. CASE CloseStream
    BY <2>3, CloseStreamKeeps
  <2>4. CASE ReadHeader
    BY <2>4, ReadHeaderKeeps
  <2>5. CASE ReadBody
    BY <2>5, ReadBodyKeeps
  <2>6. CASE ReadEnds
    BY <2>6, ReadEndsKeeps
  <2>8. CASE ReadBreaks
    BY <2>8, ReadBreaksKeeps
  <2>7. CASE UNCHANGED wireVars
    <3>1. /\ channel' = channel /\ buffers' = buffers /\ ended' = ended /\ reader' = reader
          /\ messages' = messages /\ received' = received /\ shifted' = shifted
      BY ONLY <2>7 DEF wireVars
    <3>2. WireTypes' <=> WireTypes
      BY ONLY <3>1 DEF WireTypes
    <3>3. ASSUME NEW all, NEW S, NEW start, NEW cut PROVE Layout(all, S, start, cut)' <=> Layout(all, S, start, cut)
      <4>1. /\ Laid(channel, all, S, start)' <=> Laid(channel, all, S, start)
            /\ Fits(channel, all)' <=> Fits(channel, all)
        BY ONLY <3>1
      <4>2. /\ Cuts(buffers, S, cut)' <=> Cuts(buffers, S, cut)
            /\ Starts(channel, all, start, buffers, cut)' <=> Starts(channel, all, start, buffers, cut)
            /\ Written(all, start, cut[Len(buffers) + 1])' <=> Written(all, start, cut[Len(buffers) + 1])
        BY ONLY <3>1 DEF Written
      <4>3. Position(all, S, start, cut[1])' <=> Position(all, S, start, cut[1])
        BY ONLY <3>1 DEF Position, InHeader, InBody, Once
      <4> QED
        BY ONLY <4>1, <4>2, <4>3 DEF Layout
    <3>4. Past => Past'
      BY ONLY <3>1 DEF Past
    <3> QED
      BY ONLY W_Inv, <3>2, <3>3, <3>4 DEF W_Inv
  <2> QED
    BY <2>1, <2>2, <2>3, <2>4, <2>5, <2>6, <2>7, <2>8 DEF WireNext
<1>3. W_Inv => WireInv
  BY InvariantSays
<1> QED
  BY <1>1, <1>2, <1>3, PTL DEF WireSpec

=============================================================================
