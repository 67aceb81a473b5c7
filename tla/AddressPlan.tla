---------------------------- MODULE AddressPlan ----------------------------
(***************************************************************************)
(* The arithmetic of addresses (utils/net.go, ipam/ipam.go): the networks  *)
(* the pool is filled with, the gateway of a network, the addresses a pod  *)
(* may draw from it, and the addresses of a configured range.              *)
(*                                                                         *)
(* An address is its four octets.  An octet has B values, 256 in the code; *)
(* a shift by eight bits is a division by B, byte() the remainder.         *)
(***************************************************************************)
EXTENDS Integers, Sequences

CONSTANT B      \* the values of an octet

ASSUME AddressPlanAssumption == B \in Nat /\ B >= 4

Octets == 0..(B - 1)
IPs == Octets \X Octets \X Octets \X Octets

\* The number an address stands for (InetIP2Int does the same).
InetIpToUInt32(a) == ((a[1] * B + a[2]) * B + a[3]) * B + a[4]

Shr(n) == n \div B

\* The address a number stands for (InetUint32ToIp does the same).
InetInt2Ip(n) ==
    <<Shr(Shr(Shr(n))) % B, Shr(Shr(n)) % B, Shr(n) % B, n % B>>

\* getMaskIpFromNum: the octets a mask keeps.  Only whole octets are known, any
\* other mask counts as 16.
KeptOctets(mask) ==
    CASE mask = 8 -> 1 [] mask = 24 -> 3 [] mask = 32 -> 4 [] OTHER -> 2

\* The configured subnet, cut down to what its mask keeps.
Masked(a, mask) ==
    <<a[1],
      IF KeptOctets(mask) >= 2 THEN a[2] ELSE 0,
      IF KeptOctets(mask) >= 3 THEN a[3] ELSE 0,
      IF KeptOctets(mask) >= 4 THEN a[4] ELSE 0>>

\* ipsPoolInit: the first octet that is 0 counts the networks.
FirstZero(s) ==
    IF \E i \in 1..4 : s[i] = 0
    THEN CHOOSE i \in 1..4 : s[i] = 0 /\ \A j \in 1..4 : j < i => s[j] # 0
    ELSE 1

Network(s, n) == [s EXCEPT ![FirstZero(s)] = n]
Networks(s) == {Network(s, n) : n \in Octets}

\* The first address of a network.
GatewayOf(net) == InetInt2Ip(InetIpToUInt32(net) + 1)

Drawn_BySubnetMask(net) ==
    {InetInt2Ip(InetIpToUInt32(GatewayOf(net)) + n) : n \in 2..(B * B - 3)}

\* What nextUnusedIP draws without a range: of GetRandomNumber(254) neither 0
\* nor 1, added to the gateway.
Drawn(net) == {InetInt2Ip(InetIpToUInt32(GatewayOf(net)) + n) : n \in 2..(B - 3)}

GenIpRange_LosesLast(start, end) ==
    IF InetIpToUInt32(start) >= InetIpToUInt32(end)
    THEN <<>>
    ELSE [i \in 1..(InetIpToUInt32(end) - InetIpToUInt32(start)) |->
             InetInt2Ip(InetIpToUInt32(start) + i - 1)]

\* The addresses from start to end; one address alone is no range.
GenIpRange(start, end) ==
    IF InetIpToUInt32(start) >= InetIpToUInt32(end)
    THEN <<>>
    ELSE [i \in 1..(InetIpToUInt32(end) - InetIpToUInt32(start) + 1) |->
             InetInt2Ip(InetIpToUInt32(start) + i - 1)]

----------------------------------------------------------------------------
\* The order of addresses as they are read, octet by octet.
Precedes(a, b) ==
    \E i \in 1..4 : a[i] < b[i] /\ \A j \in 1..4 : j < i => a[j] = b[j]

\* A range names exactly the addresses from its start to its end, each once and in
\* order, across every carry from one octet to the next; what the code makes of a
\* range of one address is none (net.go:51-62).
RangeWhole(start, end) ==
    LET r == GenIpRange(start, end)
    IN /\ {r[i] : i \in DOMAIN r} =
             IF Precedes(start, end)
             THEN {start, end}
                  \cup {a \in IPs : Precedes(start, a) /\ Precedes(a, end)}
             ELSE {}
       /\ \A i \in DOMAIN r : i > 1 => Precedes(r[i - 1], r[i])

=============================================================================
