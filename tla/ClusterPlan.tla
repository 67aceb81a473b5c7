---------------------------- MODULE ClusterPlan ----------------------------
(***************************************************************************)
(* SubnetPool with real networks: the nodes take the networks that         *)
(* ipsPoolInit generates from the configured subnet (AddressPlan), and the *)
(* pods of a node draw addresses from the one their node has taken, or from *)
(* the configured range.  All nodes read the same configuration.           *)
(***************************************************************************)
EXTENDS SubnetPool, AddressPlan

CONSTANTS
    Subnet,         \* the configured subnet
    Mask,           \* and its mask
    RangeStart,     \* the configured range
    RangeEnd

\* The pool is filled from the subnet.  The addresses of two networks are apart
\* when its last octet is 0 and an earlier one is too, as in 10.244.0.0: the code
\* does not look, and from 10.244.5.0/24 it makes networks one address apart.  A
\* range that is too short for GenIpRange is none.
ASSUME ClusterPlanAssumption ==
    /\ Subnet \in IPs /\ Mask \in Nat
    /\ RangeStart \in IPs /\ RangeEnd \in IPs
    /\ FirstZero(Masked(Subnet, Mask)) < 4
    /\ Masked(Subnet, Mask)[4] = 0
    /\ Nets = Networks(Masked(Subnet, Mask))
    /\ Ranged <=> GenIpRange(RangeStart, RangeEnd) # <<>>

\* The addresses the pods of a node can get.
AddressesOf(h) ==
    IF <<h, hostNet[h]>> \in ranges
    THEN LET r == GenIpRange(RangeStart, RangeEnd) IN {r[i] : i \in DOMAIN r}
    ELSE Drawn(hostNet[h])

\* What a pod can get on one node no pod can get on another, nor is it the gateway
\* of another's network, as long as no range is configured, which all nodes would
\* share, and the pool was filled once (ipam.go:446-483, 766-785).
AddressesDisjoint ==
    \A g, h \in Hosts :
        /\ ~ Ranged /\ fills <= 1
        /\ g # h /\ hostNet[g] # NoNet /\ hostNet[h] # NoNet
        => (AddressesOf(g) \cup {GatewayOf(hostNet[g])})
               \cap (AddressesOf(h) \cup {GatewayOf(hostNet[h])}) = {}

AnyRangeWhole ==
    \A a, b, c, d \in Octets :
        RangeWhole([RangeStart EXCEPT ![3] = a, ![4] = c],
                   [RangeEnd EXCEPT ![3] = b, ![4] = d])

\* Once a node has a range key it lists the addresses of the range and no other,
\* whichever the range is (ipam.go:364-377, net.go:51-62).
RangesWhole == ranges # {} => AnyRangeWhole

=============================================================================
