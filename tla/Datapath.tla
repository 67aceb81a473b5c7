------------------------------ MODULE Datapath ------------------------------
(***************************************************************************)
(* The data path of the vxlan mode: what an ADD sets up on its node        *)
(* (plugins/vxlan/vxlan/vxlan.go, Bootstrap steps 2 to 14), and the way the *)
(* three tc programs send a packet along it (plugins/vxlan/ebpf).          *)
(*                                                                         *)
(* ADDs of one node run at the same time.  They share its gateway device,  *)
(* its vxlan device and its pinned maps; what they share is looked up first *)
(* and made when it is missing.  A step can fail; the pod is then torn     *)
(* down, and the next try gets another address, so that it is another pod  *)
(* here.  The pod maps of the other nodes follow the records: here every    *)
(* daemon is there from the first record on and loses no event, and the     *)
(* callback has two steps (PodMapSync has its start, its end and the steps  *)
(* between).                                                               *)
(***************************************************************************)
EXTENDS Naturals, FiniteSets

CONSTANTS
    Pods,       \* pod addresses; as none is ever used again, an address is
                \* the pod of one ADD
    Nodes,      \* the nodes
    NodeOf,     \* the node of a pod
    MaxFails    \* bound: failures of an ADD

ASSUME DatapathAssumption ==
    /\ NodeOf \in [Pods -> Nodes]
    /\ MaxFails \in Nat

VARIABLES
    pc,         \* the next step of each pod's ADD
    gateway,    \* kernel: the pair veth_host, veth_net of each node: none, down, up
    gatewayIp,  \* kernel: the nodes whose veth_host has its address
    record,     \* etcd: the pods in the records of all nodes
    due,        \* the events of the watches: <<the daemon's node, the node of the
                \* record, its pods>>
    putting,    \* the callbacks, by the same nodes, that have yet to write
    keys,       \* prevKeys of each daemon, which its callbacks share
    podMap,     \* kernel: the pods of other nodes in each node's pod map
    lxc,        \* kernel: the pods in the lxc map of their node
    filter,     \* kernel: the pods whose host device has the veth program
    vxlan,      \* kernel: the vxlan device of each node: none, down or up
    local,      \* kernel: the nodes whose local map names the vxlan device
    clsact,     \* kernel: the nodes whose device has the qdisc for programs
    ingress,    \* kernel: the nodes with the program on the device's ingress
    egress,     \* kernel: the nodes with the program on its egress
    fails       \* failures so far, for the bound

pair == <<gateway, gatewayIp>>
events == <<due, putting, keys, podMap>>
programs == <<clsact, ingress, egress>>
device == <<vxlan, local, programs>>
vars == <<pc, pair, record, events, lxc, filter, device, fails>>

Goto(p, s) == pc' = [pc EXCEPT ![p] = s]

Busy(p) == pc[p] \notin {"idle", "up", "dead"}

\* The pod's devices go with its namespace; its entries in the maps and in the
\* record stay.
TearDown(p) ==
    /\ Goto(p, "dead")
    /\ filter' = filter \ {p}

Init ==
    /\ pc = [p \in Pods |-> "idle"]
    /\ gateway = [n \in Nodes |-> "none"]
    /\ gatewayIp = {}
    /\ record = {}
    /\ due = {} /\ putting = {}
    /\ keys = [n \in Nodes |-> {}] /\ podMap = [n \in Nodes |-> {}]
    /\ lxc = {} /\ filter = {}
    /\ vxlan = [n \in Nodes |-> "none"]
    /\ local = {} /\ clsact = {} /\ ingress = {} /\ egress = {}
    /\ fails = 0

after == <<record, events, lxc, filter, device, fails>>

FindGateway_Trusts(p) ==
    /\ pc[p] = "idle"
    /\ Goto(p, IF gateway[NodeOf[p]] = "none" THEN "addGateway" ELSE "findIp")
    /\ UNCHANGED <<pair, after>>

\* createHostVethPair: the devices that are there are taken as they are ...
FindGateway(p) ==
    /\ pc[p] = "idle"
    /\ Goto(p, IF gateway[NodeOf[p]] = "none" THEN "addGateway" ELSE "upGateway")
    /\ UNCHANGED <<pair, after>>

\* ... and else made, which fails if another ADD was faster.  The ADD has no
\* address yet; the kubelet tries it again.
AddGateway(p) ==
    /\ pc[p] = "addGateway"
    /\ IF gateway[NodeOf[p]] = "none"
       THEN /\ gateway' = [gateway EXCEPT ![NodeOf[p]] = "down"]
            /\ Goto(p, "upGateway")
       ELSE /\ Goto(p, "idle")
            /\ UNCHANGED gateway
    /\ UNCHANGED <<gatewayIp, after>>

\* setUpHostVethPair, whoever made them.
UpGateway(p) ==
    /\ pc[p] = "upGateway"
    /\ gateway' = [gateway EXCEPT ![NodeOf[p]] = "up"]
    /\ Goto(p, "findIp")
    /\ UNCHANGED <<gatewayIp, after>>

\* setIpIntoHostPair: an address that is there is taken ...
FindIp(p) ==
    /\ pc[p] = "findIp"
    /\ Goto(p, IF NodeOf[p] \in gatewayIp THEN "address" ELSE "setIp")
    /\ UNCHANGED <<pair, after>>

\* ... and else it is set, which fails if another ADD was faster.
SetIp(p) ==
    /\ pc[p] = "setIp"
    /\ gatewayIp' = gatewayIp \cup {NodeOf[p]}
    /\ Goto(p, IF NodeOf[p] \in gatewayIp THEN "idle" ELSE "address")
    /\ UNCHANGED <<gateway, after>>

\* UnusedIP writes the address into the node's record, which the daemons of the
\* other nodes watch.
Address(p) ==
    /\ pc[p] = "address"
    /\ record' = record \cup {p}
    /\ due' = due \cup {<<n, NodeOf[p], {q \in record' : NodeOf[q] = NodeOf[p]}>> :
                            n \in Nodes \ {NodeOf[p]}}
    /\ Goto(p, "lxc")
    /\ UNCHANGED <<pair, putting, keys, podMap, lxc, filter, device, fails>>

\* setVethPairInfoToLxcMap.
SetLxc(p) ==
    /\ pc[p] = "lxc"
    /\ lxc' = lxc \cup {p}
    /\ Goto(p, "filter")
    /\ UNCHANGED <<pair, record, events, filter, device, fails>>

AttachVeth_Once(p) ==
    /\ pc[p] = "filter"
    /\ filter' = IF \E q \in filter : NodeOf[q] = NodeOf[p] THEN filter
                 ELSE filter \cup {p}
    /\ Goto(p, "find")
    /\ UNCHANGED <<pair, record, events, lxc, device, fails>>

\* attachTcBPFIntoVeth, on a device of the pod's own.
AttachVeth(p) ==
    /\ pc[p] = "filter"
    /\ filter' = filter \cup {p}
    /\ Goto(p, "find")
    /\ UNCHANGED <<pair, record, events, lxc, device, fails>>

FindVxlan_Trusts(p) ==
    /\ pc[p] = "find"
    /\ Goto(p, "local")
    /\ UNCHANGED <<pair, record, events, lxc, filter, device, fails>>

\* CreateVxlanAndUp2: the device that is there is taken as it is ...
FindVxlan(p) ==
    /\ pc[p] = "find"
    /\ Goto(p, IF vxlan[NodeOf[p]] = "none" THEN "add" ELSE "local")
    /\ UNCHANGED <<pair, record, events, lxc, filter, device, fails>>


\* ... and else one is added, which fails if another ADD was faster ...
AddVxlan(p) ==
    /\ pc[p] = "add"
    /\ IF vxlan[NodeOf[p]] = "none"
       THEN /\ vxlan' = [vxlan EXCEPT ![NodeOf[p]] = "down"]
            /\ Goto(p, "setup")
            /\ UNCHANGED filter
       ELSE /\ TearDown(p)
            /\ UNCHANGED vxlan
    /\ UNCHANGED <<pair, record, events, lxc, local, programs, fails>>

\* ... and set up.
UpVxlan(p) ==
    /\ pc[p] = "setup"
    /\ vxlan' = [vxlan EXCEPT ![NodeOf[p]] = "up"]
    /\ Goto(p, "local")
    /\ UNCHANGED <<pair, record, events, lxc, filter, local, programs, fails>>

\* setVxlanInfoToLocalMap.
SetLocal(p) ==
    /\ pc[p] = "local"
    /\ local' = local \cup {NodeOf[p]}
    /\ Goto(p, "ingress")
    /\ UNCHANGED <<pair, record, events, lxc, filter, vxlan, programs, fails>>

FindClsact_Trusts(p) ==
    /\ pc[p] = "ingress"
    /\ Goto(p, IF NodeOf[p] \in clsact THEN "egress" ELSE "addClsact")
    /\ UNCHANGED <<pair, record, events, lxc, filter, device, fails>>

\* attachTcBPFIntoVxlan, TryAttachBPF on the ingress: the qdisc for programs that
\* is there is taken ...
FindClsact(p) ==
    /\ pc[p] = "ingress"
    /\ Goto(p, IF NodeOf[p] \in clsact THEN "findIngress" ELSE "addClsact")
    /\ UNCHANGED <<pair, record, events, lxc, filter, device, fails>>

\* ... and else it is added, which fails if another ADD was faster.
AddClsact(p) ==
    /\ pc[p] = "addClsact"
    /\ IF NodeOf[p] \notin clsact
       THEN /\ clsact' = clsact \cup {NodeOf[p]}
            /\ Goto(p, "findIngress")
            /\ UNCHANGED filter
       ELSE /\ TearDown(p)
            /\ UNCHANGED clsact
    /\ UNCHANGED <<pair, record, events, lxc, vxlan, local, ingress, egress, fails>>

\* The qdisc may be there without its program, which is looked for too ...
FindIngress(p) ==
    /\ pc[p] = "findIngress"
    /\ Goto(p, IF NodeOf[p] \in ingress THEN "egress" ELSE "attach")
    /\ UNCHANGED <<pair, record, events, lxc, filter, device, fails>>

\* ... and attached.  Of two ADDs that found none each attaches one; packets go
\* through the first, which decides them all.
AttachIngress(p) ==
    /\ pc[p] = "attach"
    /\ ingress' = ingress \cup {NodeOf[p]}
    /\ Goto(p, "egress")
    /\ UNCHANGED <<pair, record, events, lxc, filter, vxlan, local, clsact, egress, fails>>

\* TryAttachBPF on the egress.  By now the qdisc is there, and whether the program
\* is found or attached, once or twice, makes no difference.
AttachEgress(p) ==
    /\ pc[p] = "egress"
    /\ egress' = egress \cup {NodeOf[p]}
    /\ Goto(p, "up")
    /\ UNCHANGED <<pair, record, events, lxc, filter, vxlan, local, clsact, ingress, fails>>

\* A step fails or the process is killed.
Fail(p) ==
    /\ Busy(p)
    /\ fails < MaxFails
    /\ fails' = fails + 1
    /\ TearDown(p)
    /\ UNCHANGED <<pair, record, events, lxc, device>>

\* DEL: Unmount does nothing, the container runtime removes the namespace.
Del(p) ==
    /\ pc[p] = "up"
    /\ TearDown(p)
    /\ UNCHANGED <<pair, record, events, lxc, device, fails>>

\* The callback for the record of node m on node n takes its next event, which is
\* the one with the fewest pods, as records only grow.  It leaves what it is to write
\* in the daemon's keys and deletes the whole pod map.
Handle(n, m, write) ==
    /\ <<n, m>> \notin putting
    /\ \E e \in due :
           /\ e[1] = n /\ e[2] = m
           /\ \A f \in due : f[1] = n /\ f[2] = m => e[3] \subseteq f[3]
           /\ due' = due \ {e}
           /\ keys' = [keys EXCEPT ![n] = IF write THEN e[3] ELSE {}]
    /\ podMap' = [podMap EXCEPT ![n] = {}]
    /\ putting' = putting \cup {<<n, m>>}
    /\ UNCHANGED <<pc, pair, record, lxc, filter, device>>

Wipe(n, m) == Handle(n, m, TRUE) /\ UNCHANGED fails

\* If it cannot read the address of the node, it has nothing to write.
WipeOnly(n, m) ==
    /\ fails < MaxFails
    /\ fails' = fails + 1
    /\ Handle(n, m, FALSE)

\* Then it writes the daemon's keys, be they its own or those of another callback
\* that came in between.
Put(n, m) ==
    /\ <<n, m>> \in putting
    /\ podMap' = [podMap EXCEPT ![n] = @ \cup keys[n]]
    /\ putting' = putting \ {<<n, m>>}
    /\ UNCHANGED <<pc, pair, record, due, keys, lxc, filter, device, fails>>

Step(p) ==
    \/ FindGateway(p) \/ AddGateway(p) \/ UpGateway(p) \/ FindIp(p) \/ SetIp(p)
    \/ Address(p) \/ SetLxc(p) \/ AttachVeth(p) \/ FindVxlan(p) \/ AddVxlan(p)
    \/ UpVxlan(p) \/ SetLocal(p) \/ FindClsact(p) \/ AddClsact(p) \/ FindIngress(p)
    \/ AttachIngress(p) \/ AttachEgress(p)

Next ==
    \/ \E p \in Pods : Step(p) \/ Fail(p) \/ Del(p)
    \/ \E n, m \in Nodes : Wipe(n, m) \/ WipeOnly(n, m) \/ Put(n, m)

Spec == Init /\ [][Next]_vars

\* A process that runs takes its next step, the kubelet tries again, and the
\* daemon handles its events.
FairSpec ==
    /\ Spec
    /\ \A p \in Pods : WF_vars(Step(p))
    /\ \A n \in Nodes : \A m \in Nodes \ {n} : WF_vars(Wipe(n, m) \/ Put(n, m))

(***************************************************************************)
(* A packet from pod s to pod d: does it arrive there?                     *)
(***************************************************************************)

\* A pod has devices a packet can be sent to or come from.
Wired(p) == Busy(p) \/ pc[p] = "up"

\* vxlan_ingress.c: to the pod the lxc map of this node has for the destination.
VxlanIngress(n, d) == n \in ingress /\ NodeOf[d] = n /\ d \in lxc /\ Wired(d)

\* vxlan_egress.c: through the tunnel to the node the pod map has for it.  The
\* device is external: without the program it does not know where to send.
VxlanEgress(n, d) ==
    /\ vxlan[n] = "up" /\ n \in egress
    /\ d \in podMap[n]
    /\ vxlan[NodeOf[d]] = "up" /\ VxlanIngress(NodeOf[d], d)

\* veth_ingress.c: to a pod of this node, or to the vxlan device for a pod of
\* another one, or past the programs.
VethIngress(n, d) ==
    \/ NodeOf[d] = n /\ d \in lxc /\ Wired(d)
    \/ d \in podMap[n] /\ n \in local /\ VxlanEgress(n, d)

\* A packet leaves its pod through the host half of the veth pair.
Arrives(s, d) == Wired(s) /\ s \in filter /\ VethIngress(NodeOf[s], d)

----------------------------------------------------------------------------
\* Types; besides, a device has programs or an entry in the local map only if it
\* exists, a program only with the qdisc, and a pod map holds pods of other nodes
\* that have an address, as do the keys and events that go into it.
TypeOK ==
    /\ pc \in [Pods -> {"idle", "addGateway", "upGateway", "findIp", "setIp",
                        "address", "lxc", "filter", "find", "add", "setup", "local",
                        "ingress", "addClsact", "findIngress", "attach", "egress", "up",
                        "dead"}]
    /\ gateway \in [Nodes -> {"none", "down", "up"}]
    /\ gatewayIp \subseteq {n \in Nodes : gateway[n] # "none"}
    /\ record \subseteq Pods /\ lxc \subseteq record /\ filter \subseteq lxc
    /\ vxlan \in [Nodes -> {"none", "down", "up"}]
    /\ local \cup clsact \subseteq {n \in Nodes : vxlan[n] # "none"}
    /\ ingress \cup egress \subseteq clsact
    /\ putting \subseteq Nodes \X Nodes
    /\ \A e \in due : /\ e \in Nodes \X Nodes \X SUBSET record /\ e[1] # e[2]
                      /\ \A p \in e[3] : NodeOf[p] = e[2]
    /\ \A n \in Nodes : podMap[n] \cup keys[n] \subseteq {p \in record : NodeOf[p] # n}
    /\ fails \in 0..MaxFails

Up(p) == pc[p] = "up"

Known(s, d) == NodeOf[s] = NodeOf[d] \/ d \in podMap[NodeOf[s]]

\* A pod whose ADD has returned has its gateway: both devices are up and have their
\* address, whichever ADD made them and wherever that one died (vxlan.go:83-92,
\* 119-131).
GatewayThere ==
    \A p \in Pods : Up(p) => gateway[NodeOf[p]] = "up" /\ NodeOf[p] \in gatewayIp

\* Two pods of one node reach each other as soon as both ADDs have returned,
\* whatever other ADDs do or failed to do (veth_ingress.c:81-89).
LocalPodsReached ==
    \A s, d \in Pods : Up(s) /\ Up(d) /\ NodeOf[s] = NodeOf[d] => Arrives(s, d)

\* Where the device is up, whichever ADD made it and whatever became of that ADD,
\* a pod whose ADD has returned reaches every pod whose ADD has returned and that
\* its node has heard of (vxlan.go:302-324).
PodsReached ==
    \A s, d \in Pods :
        /\ Up(s) /\ Up(d) /\ Known(s, d)
        /\ vxlan[NodeOf[s]] = "up" /\ vxlan[NodeOf[d]] = "up"
        => Arrives(s, d)


=============================================================================
