-------------------------- MODULE NetworkAllocator --------------------------
(***************************************************************************)
(* What the cluster expects of the subnet part of ipam/ipam.go: every node *)
(* ends up with a network of its own, "each node selects a not yet used    *)
(* one" (ipam.go:470-471), and keeps it.  Nothing here mentions etcd: one  *)
(* atomic step gives a network to a node.  SubnetPool implements this      *)
(* under the conditions its runs state.                                    *)
(***************************************************************************)
CONSTANTS Hosts,    \* the nodes of the cluster
          Nets,     \* the pod networks the pool starts with
          NoNet     \* the empty string: a node without a network

VARIABLE hostNet    \* hostNet[h]: the network node h owns

Assigned == {hostNet[h] : h \in Hosts} \ {NoNet}

Init == hostNet = [h \in Hosts |-> NoNet]

\* A node without a network is given one no node has.
Assign(h) ==
    /\ hostNet[h] = NoNet
    /\ \E n \in Nets \ Assigned : hostNet' = [hostNet EXCEPT ![h] = n]

Next == \E h \in Hosts : Assign(h)

Spec == Init /\ [][Next]_hostNet

\* A node that keeps asking is eventually served.
FairSpec == Spec /\ \A h \in Hosts : WF_hostNet(Assign(h))

=============================================================================
