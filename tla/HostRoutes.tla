----------------------------- MODULE HostRoutes -----------------------------
(***************************************************************************)
(* How the host-gw mode connects the nodes (plugins/hostgw/hostgw.go,      *)
(* nettools.go, SetOtherHostRouteToCurrentHost).                           *)
(*                                                                         *)
(* An ADD first makes sure its own node has a network (SubnetPool, one step *)
(* here) and sets the pod up (PodAddresses).  It then reads the addresses  *)
(* and networks of all nodes, lists the routes of its node and adds those  *)
(* that are missing, one after the other.  ADDs of one node run at the same *)
(* time and share its routing table.  A failed ADD is tried again.         *)
(***************************************************************************)
EXTENDS Naturals

CONSTANTS
    Hosts,          \* the nodes of the cluster
    Adds,           \* one ADD each, tried until it succeeds
    HostOf,         \* the node an ADD runs on
    MaxAddresses    \* bound: addresses a node has had

ASSUME HostRoutesAssumption ==
    /\ HostOf \in [Adds -> Hosts]
    /\ MaxAddresses \in Nat \ {0}

VARIABLES
    joined,     \* etcd: the nodes that have a network
    address,    \* Kubernetes: the InternalIP of each node, numbered
    table,      \* kernel: for each node and destination network the address
                \* the route goes via; None if there is no route
    pc,         \* the next step of each ADD
    nets,       \* local: the nodes AllHostNetwork found a network for
    ips,        \* local: the addresses it found
    list,       \* local: the destinations RouteList returned
    todo        \* local: the nodes still to be handled

vars == <<joined, address, table, pc, nets, ips, list, todo>>
local == <<nets, ips, list, todo>>

None == 0
NoRoutes == [h \in Hosts |-> None]
Others(p) == Hosts \ {HostOf[p]}
Goto(p, s) == pc' = [pc EXCEPT ![p] = s]

End(p, s) ==
    /\ Goto(p, s)
    /\ nets' = [nets EXCEPT ![p] = {}]
    /\ ips' = [ips EXCEPT ![p] = NoRoutes]
    /\ list' = [list EXCEPT ![p] = {}]
    /\ todo' = [todo EXCEPT ![p] = {}]

Init ==
    /\ joined = {}
    /\ address = [h \in Hosts |-> 1]
    /\ table = [h \in Hosts |-> NoRoutes]
    /\ pc = [p \in Adds |-> "idle"]
    /\ nets = [p \in Adds |-> {}]
    /\ ips = [p \in Adds |-> NoRoutes]
    /\ list = [p \in Adds |-> {}]
    /\ todo = [p \in Adds |-> {}]

\* ipam.Init gives the node a network, if it has none yet.
Add(p) ==
    /\ pc[p] \in {"idle", "failed", "unassigned"}
    /\ joined' = joined \cup {HostOf[p]}
    /\ Goto(p, "networks")
    /\ UNCHANGED <<address, table, local>>

\* AllHostNetwork.  It reads node by node; as networks are only ever added, one
\* step finds what such a walk can find.
ReadNetworks(p) ==
    /\ pc[p] = "networks"
    /\ nets' = [nets EXCEPT ![p] = joined]
    /\ ips' = [ips EXCEPT ![p] = address]
    /\ todo' = [todo EXCEPT ![p] = Others(p)]
    /\ Goto(p, "list")
    /\ UNCHANGED <<joined, address, table, list>>

ListRoutes_Forgotten(p) ==
    /\ pc[p] = "list"
    /\ Goto(p, "routes")
    /\ UNCHANGED <<joined, address, table, nets, ips, list, todo>>

\* RouteList, once for all nodes.
ListRoutes(p) ==
    /\ pc[p] = "list"
    /\ list' = [list EXCEPT ![p] = {h \in Hosts : table[HostOf[p]][h] # None}]
    /\ Goto(p, "routes")
    /\ UNCHANGED <<joined, address, table, nets, ips, todo>>

\* ParseCIDR fails on the empty network of a node that has none.
Unassigned(p, h) ==
    /\ pc[p] = "routes" /\ h \in todo[p]
    /\ h \notin nets[p]
    /\ End(p, "unassigned")
    /\ UNCHANGED <<joined, address, table>>

Skip_Unassigned(p, h) ==
    /\ pc[p] = "routes" /\ h \in todo[p]
    /\ h \in list[p] \/ h \notin nets[p]
    /\ todo' = [todo EXCEPT ![p] = @ \ {h}]
    /\ UNCHANGED <<joined, address, table, pc, nets, ips, list>>

\* A destination that was listed is skipped, whatever its route goes via.
Skip(p, h) ==
    /\ pc[p] = "routes" /\ h \in todo[p]
    /\ h \in nets[p] /\ h \in list[p]
    /\ todo' = [todo EXCEPT ![p] = @ \ {h}]
    /\ UNCHANGED <<joined, address, table, pc, nets, ips, list>>

AddRoute_Unassigned(p, h) ==
    /\ pc[p] = "routes" /\ h \in todo[p] /\ h \notin list[p]
    /\ table[HostOf[p]][h] = None
    /\ table' = [table EXCEPT ![HostOf[p]][h] = ips[p][h]]
    /\ todo' = [todo EXCEPT ![p] = @ \ {h}]
    /\ UNCHANGED <<joined, address, pc, nets, ips, list>>

\* AddHostRoute; the kernel refuses a second route to one destination.
AddRoute(p, h) ==
    /\ pc[p] = "routes" /\ h \in todo[p]
    /\ h \in nets[p] /\ h \notin list[p]
    /\ IF table[HostOf[p]][h] = None
       THEN /\ table' = [table EXCEPT ![HostOf[p]][h] = ips[p][h]]
            /\ todo' = [todo EXCEPT ![p] = @ \ {h}]
            /\ UNCHANGED <<pc, nets, ips, list>>
       ELSE /\ End(p, "failed")
            /\ UNCHANGED table
    /\ UNCHANGED <<joined, address>>

\* All routes are set: the ADD accepts forwarding and returns its result.
Succeed(p) ==
    /\ pc[p] = "routes" /\ todo[p] = {}
    /\ End(p, "up")
    /\ UNCHANGED <<joined, address, table>>

\* A node gets another InternalIP.
Renumber(h) ==
    /\ address[h] < MaxAddresses
    /\ address' = [address EXCEPT ![h] = @ + 1]
    /\ UNCHANGED <<joined, table, pc, local>>

\* The pod is deleted, which does nothing, and another one is added.
Again(p) ==
    /\ pc[p] = "up"
    /\ Goto(p, "idle")
    /\ UNCHANGED <<joined, address, table, local>>

Step(p) ==
    \/ ReadNetworks(p) \/ ListRoutes(p) \/ Succeed(p)
    \/ \E h \in Hosts : Unassigned(p, h) \/ Skip(p, h) \/ AddRoute(p, h)

Next ==
    \/ \E p \in Adds : Add(p) \/ Step(p) \/ Again(p)
    \/ \E h \in Hosts : Renumber(h)

Spec == Init /\ [][Next]_vars

\* A process that runs takes its next step, and the kubelet tries again.
FairSpec == Spec /\ \A p \in Adds : WF_vars(Step(p)) /\ WF_vars(Add(p))

----------------------------------------------------------------------------
\* Types; besides, a route only goes via an address its node has had, and only to
\* a node that has a network.
TypeOK ==
    /\ joined \subseteq Hosts
    /\ address \in [Hosts -> 1..MaxAddresses]
    /\ pc \in [Adds -> {"idle", "networks", "list", "routes", "up", "failed",
                        "unassigned"}]
    /\ nets \in [Adds -> SUBSET Hosts]
    /\ ips \in [Adds -> [Hosts -> 0..MaxAddresses]]
    /\ list \in [Adds -> SUBSET Hosts]
    /\ todo \in [Adds -> SUBSET Hosts]
    /\ \A h, n \in Hosts :
           table[h][n] # None => n \in joined \ {h} /\ table[h][n] \in 1..address[n]

\* When ADDs of two nodes have succeeded there are routes between the nodes in both
\* directions, although neither ADD knew of the other one (hostgw.go:135-140).
UpMeansConnected ==
    \A p, q \in Adds : pc[p] = "up" /\ pc[q] = "up" /\ HostOf[p] # HostOf[q] =>
        table[HostOf[p]][HostOf[q]] # None

\* However ADDs of one node get into each other's way, and whichever node is first,
\* each ADD that failed succeeds in the end, when every node runs one
\* (nettools.go:600-631).
EveryAddSucceeds == \A p \in Adds : pc[p] \in {"failed", "unassigned"} ~> pc[p] = "up"

=============================================================================
