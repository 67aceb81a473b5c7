---------------------------- MODULE MCSubnetPool ----------------------------
(***************************************************************************)
(* Small instances of ClusterPlan, and with it of SubnetPool, for TLC.     *)
(***************************************************************************)
EXTENDS ClusterPlan, TLC

CONSTANTS h1, h2, h3,   \* nodes
          p1, p2, p3    \* processes

\* One process on each of three nodes.
OneEach == p1 :> h1 @@ p2 :> h2 @@ p3 :> h3

\* Two processes on the first node, one on the second.
TwoAndOne == p1 :> h1 @@ p2 :> h1 @@ p3 :> h2

\* First pods of nodes arrive one after the other.
NoOverlap == {}

\* Initialisations overlap across nodes, and not on one node.
AcrossNodes == {pq \in Procs \X Procs : HostOf[pq[1]] # HostOf[pq[2]]}

\* Anything overlaps.
AnyOverlap == Procs \X Procs

\* 10.244.0.0 in octets of a few values: the third octet counts the networks.
TenSubnet == <<1, 2, 0, 0>>
TenNets == Networks(TenSubnet)

\* A range of four addresses, across a carry.
LowAddress == <<1, 2, 2, 2>>
HighAddress == <<1, 2, 3, 1>>

=============================================================================
