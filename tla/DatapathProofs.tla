--------------------------- MODULE DatapathProofs ---------------------------
(***************************************************************************)
(* Theorems about Datapath, for any number of nodes, pods and failures.    *)
(***************************************************************************)
EXTENDS Datapath, TLAPS

(***************************************************************************)
(* What an ADD may rely on, from the step it has come to: each set holds   *)
(* the places of pc after the step that gives the pod the thing named.     *)
(***************************************************************************)
HasEgress == {"up"}
HasIngress == HasEgress \cup {"egress"}
HasClsact == HasIngress \cup {"findIngress", "attach"}
HasLocal == HasClsact \cup {"ingress", "addClsact"}
HasVxlan == HasLocal \cup {"setup", "local"}
HasFilter == HasVxlan \cup {"find", "add"}
HasLxc == HasFilter \cup {"filter"}
HasAddress == HasLxc \cup {"lxc"}
HasGatewayIp == HasAddress \cup {"address"}
HasGatewayUp == HasGatewayIp \cup {"findIp", "setIp"}
HasGateway == HasGatewayUp \cup {"upGateway"}

\* What the ADDs of a node share is there for each of them.
NodeReady == \A p \in Pods :
    LET n == NodeOf[p] IN
    /\ pc[p] \in HasGateway => gateway[n] # "none"
    /\ pc[p] \in HasGatewayUp => gateway[n] = "up"
    /\ pc[p] \in HasGatewayIp => n \in gatewayIp
    /\ pc[p] \in HasVxlan => vxlan[n] # "none"
    /\ pc[p] \in HasLocal => n \in local
    /\ pc[p] \in HasClsact => n \in clsact
    /\ pc[p] \in HasIngress => n \in ingress
    /\ pc[p] \in HasEgress => n \in egress

\* What is the pod's own is there too.
PodReady == \A p \in Pods :
    /\ pc[p] \in HasAddress => p \in record
    /\ pc[p] \in HasLxc => p \in lxc
    /\ pc[p] \in HasFilter => p \in filter

\* TypeOK but for what concerns the daemons ...
NodeTyped ==
    /\ pc \in [Pods -> {"idle", "addGateway", "upGateway", "findIp", "setIp",
                        "address", "lxc", "filter", "find", "add", "setup", "local",
                        "ingress", "addClsact", "findIngress", "attach", "egress", "up",
                        "dead"}]
    /\ gateway \in [Nodes -> {"none", "down", "up"}]
    /\ gatewayIp \subseteq {n \in Nodes : gateway[n] # "none"}
    /\ record \subseteq Pods /\ lxc \subseteq record /\ filter \subseteq lxc
    /\ vxlan \in [Nodes -> {"none", "down", "up"}]
    /\ local \cup clsact \subseteq {n \in Nodes : vxlan[n] # "none"}
    /\ ingress \cup egress \subseteq clsact
    /\ fails \in 0..MaxFails

\* ... and what does.
Foreign(n) == {p \in record : NodeOf[p] # n}

EventsTyped ==
    /\ podMap \in [Nodes -> SUBSET Pods] /\ keys \in [Nodes -> SUBSET Pods]
    /\ putting \subseteq Nodes \X Nodes
    /\ \A e \in due : /\ e \in Nodes \X Nodes \X SUBSET record /\ e[1] # e[2]
                      /\ \A p \in e[3] : NodeOf[p] = e[2]
    /\ \A n \in Nodes : podMap[n] \cup keys[n] \subseteq Foreign(n)

PathInv == NodeTyped /\ EventsTyped /\ NodeReady /\ PodReady

\* One operator for the moves of Next, so that a proof has one case an action.
LEMMA NextCases ==
    ASSUME Next
    PROVE  \/ \E p \in Pods :
                \/ FindGateway(p) \/ AddGateway(p) \/ UpGateway(p) \/ FindIp(p)
                \/ SetIp(p) \/ Address(p) \/ SetLxc(p) \/ AttachVeth(p)
                \/ FindVxlan(p) \/ AddVxlan(p) \/ UpVxlan(p) \/ SetLocal(p)
                \/ FindClsact(p) \/ AddClsact(p) \/ FindIngress(p)
                \/ AttachIngress(p) \/ AttachEgress(p) \/ Fail(p) \/ Del(p)
           \/ \E n, m \in Nodes : Wipe(n, m) \/ WipeOnly(n, m) \/ Put(n, m)
  BY DEF Next, Step

LEMMA PathInit == Init => PathInv
  BY DatapathAssumption
     DEF Init, PathInv, NodeTyped, EventsTyped, NodeReady, PodReady, HasEgress,
         HasIngress, HasClsact, HasLocal, HasVxlan, HasFilter, HasLxc, HasAddress,
         HasGatewayIp, HasGatewayUp, HasGateway

\* A step of an ADD, or of its end, leaves the daemons alone, but for the write of
\* the record; a step of a daemon leaves everything else alone.
LEMMA OwnEvents ==
    ASSUME Next
    PROVE  \/ UNCHANGED <<record, events>>
           \/ \E p \in Pods : Address(p)
           \/ /\ UNCHANGED <<pc, pair, record, lxc, filter, device>>
              /\ \E n, m \in Nodes : Wipe(n, m) \/ WipeOnly(n, m) \/ Put(n, m)
  <1>1. ASSUME NEW n \in Nodes, NEW m \in Nodes, Wipe(n, m) \/ WipeOnly(n, m) \/ Put(n, m)
        PROVE  UNCHANGED <<pc, pair, record, lxc, filter, device>>
    BY <1>1 DEF Wipe, WipeOnly, Handle, Put
  <1>2. ASSUME NEW p \in Pods,
               \/ FindGateway(p) \/ AddGateway(p) \/ UpGateway(p) \/ FindIp(p)
               \/ SetIp(p) \/ SetLxc(p) \/ AttachVeth(p)
               \/ FindVxlan(p) \/ AddVxlan(p) \/ UpVxlan(p) \/ SetLocal(p)
               \/ FindClsact(p) \/ AddClsact(p) \/ FindIngress(p)
               \/ AttachIngress(p) \/ AttachEgress(p) \/ Fail(p) \/ Del(p)
        PROVE  UNCHANGED <<record, events>>
    BY <1>2 DEF after, FindGateway, AddGateway, UpGateway, FindIp, SetIp, SetLxc,
       AttachVeth, FindVxlan, AddVxlan, UpVxlan, SetLocal, FindClsact, AddClsact,
       FindIngress, AttachIngress, AttachEgress, Fail, Del
  <1> QED
    BY <1>1, <1>2, NextCases

LEMMA HandleTyped ==
    ASSUME EventsTyped, record \subseteq Pods, record' = record,
           NEW n \in Nodes, NEW m \in Nodes, NEW write \in BOOLEAN, Handle(n, m, write)
    PROVE  EventsTyped'
  <1>1. PICK e \in due : /\ e[1] = n /\ e[2] = m /\ due' = due \ {e}
                         /\ keys' = [keys EXCEPT ![n] = IF write THEN e[3] ELSE {}]
    BY DEF Handle
  <1>2. /\ podMap' = [podMap EXCEPT ![n] = {}]
        /\ putting' = putting \cup {<<n, m>>}
    BY DEF Handle
  <1>3. /\ e[3] \subseteq record /\ n # m
        /\ \A p \in e[3] : NodeOf[p] = m
    BY <1>1 DEF EventsTyped
  <1>4. e[3] \subseteq Foreign(n) /\ Foreign(n) \subseteq record
    BY <1>3 DEF Foreign
  <1>5. \A k \in Nodes : Foreign(k)' = Foreign(k)
    BY DEF Foreign
  <1>6. keys' \in [Nodes -> SUBSET Pods] /\ podMap' \in [Nodes -> SUBSET Pods]
    <2>1. e[3] \subseteq Pods
      BY <1>3
    <2> QED
      BY <1>1, <1>2, <2>1 DEF EventsTyped
  <1>7. \A k \in Nodes : podMap'[k] \cup keys'[k] \subseteq Foreign(k)
    BY <1>1, <1>2, <1>4 DEF EventsTyped
  <1>8. \A f \in due' : /\ f \in Nodes \X Nodes \X SUBSET record /\ f[1] # f[2]
                        /\ \A p \in f[3] : NodeOf[p] = f[2]
    BY <1>1 DEF EventsTyped
  <1>9. putting' \subseteq Nodes \X Nodes
    BY <1>2 DEF EventsTyped
  <1> QED
    BY <1>5, <1>6, <1>7, <1>8, <1>9 DEF EventsTyped

LEMMA AddressTyped ==
    ASSUME EventsTyped, record \subseteq Pods, NEW p \in Pods, Address(p)
    PROVE  EventsTyped'
  <1>1. /\ record' = record \cup {p}
        /\ due' = due \cup {<<n, NodeOf[p], {q \in record' : NodeOf[q] = NodeOf[p]}>> :
                                n \in Nodes \ {NodeOf[p]}}
        /\ UNCHANGED <<putting, keys, podMap>>
    BY DEF Address
  <1>2. ASSUME NEW e \in due'
        PROVE  /\ e \in Nodes \X Nodes \X SUBSET record' /\ e[1] # e[2]
               /\ \A q \in e[3] : NodeOf[q] = e[2]
    <2>1. CASE e \in due
      BY <1>1, <2>1 DEF EventsTyped
    <2>2. CASE e \notin due
      <3>1. PICK n \in Nodes \ {NodeOf[p]} :
                e = <<n, NodeOf[p], {q \in record' : NodeOf[q] = NodeOf[p]}>>
        BY <1>1, <2>2
      <3>2. NodeOf[p] \in Nodes
        BY DatapathAssumption
      <3> QED
        BY <3>1, <3>2
    <2> QED
      BY <2>1, <2>2
  <1>3. \A n \in Nodes : Foreign(n) \subseteq Foreign(n)'
    BY <1>1 DEF Foreign
  <1>4. \A n \in Nodes : podMap'[n] \cup keys'[n] \subseteq Foreign(n)'
    BY <1>1, <1>3 DEF EventsTyped
  <1> QED
    BY <1>1, <1>2, <1>4 DEF EventsTyped

LEMMA EventsStep ==
    ASSUME NodeTyped, EventsTyped, [Next]_vars
    PROVE  EventsTyped'
  <1>1. CASE UNCHANGED <<record, events>>
    BY <1>1 DEF events, EventsTyped, Foreign
  <1>2. ASSUME NEW p \in Pods, Address(p) PROVE EventsTyped'
    BY <1>2, AddressTyped DEF NodeTyped
  <1>3. ASSUME NEW n \in Nodes, NEW m \in Nodes, record' = record,
               Wipe(n, m) \/ WipeOnly(n, m)
        PROVE  EventsTyped'
    BY <1>3, HandleTyped DEF NodeTyped, Wipe, WipeOnly
  <1>4. ASSUME NEW n \in Nodes, NEW m \in Nodes, record' = record, Put(n, m)
        PROVE  EventsTyped'
    <2>1. /\ podMap' = [podMap EXCEPT ![n] = @ \cup keys[n]]
          /\ putting' \subseteq putting /\ UNCHANGED <<due, keys>>
      BY <1>4 DEF Put
    <2> QED
      BY <1>4, <2>1 DEF EventsTyped, Foreign
  <1>5. CASE UNCHANGED vars
    BY <1>1, <1>5 DEF vars
  <1> QED
    BY <1>1, <1>2, <1>3, <1>4, <1>5, OwnEvents

LEMMA DaemonFails ==
    ASSUME NEW n \in Nodes, NEW m \in Nodes, fails \in 0..MaxFails,
           Wipe(n, m) \/ WipeOnly(n, m) \/ Put(n, m)
    PROVE  fails' \in 0..MaxFails
  <1>1. fails' = fails \/ (fails < MaxFails /\ fails' = fails + 1)
    BY DEF Wipe, WipeOnly, Put
  <1> QED
    BY <1>1, DatapathAssumption

LEMMA PathStep == PathInv /\ [Next]_vars => PathInv'
  <1> SUFFICES ASSUME PathInv, [Next]_vars PROVE (NodeTyped /\ NodeReady /\ PodReady)'
    BY EventsStep DEF PathInv
  <1> USE DatapathAssumption
      DEF PathInv, NodeTyped, NodeReady, PodReady, HasEgress, HasIngress, HasClsact,
          HasLocal, HasVxlan, HasFilter, HasLxc, HasAddress, HasGatewayIp, HasGatewayUp,
          HasGateway, pair, device, programs, after, Goto
  <1>u. CASE UNCHANGED vars
    BY <1>u DEF vars
  <1>s. ASSUME UNCHANGED <<pc, pair, record, lxc, filter, device>>,
               NEW n \in Nodes, NEW m \in Nodes,
               Wipe(n, m) \/ WipeOnly(n, m) \/ Put(n, m)
        PROVE  (NodeTyped /\ NodeReady /\ PodReady)'
    <2>1. fails' \in 0..MaxFails
      BY <1>s, DaemonFails DEF PathInv, NodeTyped
    <2> QED
      BY <1>s, <2>1
  <1>n. ASSUME NEW p \in Pods,
               \/ FindGateway(p) \/ AddGateway(p) \/ UpGateway(p)
               \/ FindIp(p) \/ SetIp(p) \/ Address(p) \/ SetLxc(p)
               \/ AttachVeth(p) \/ FindVxlan(p) \/ AddVxlan(p)
               \/ UpVxlan(p) \/ SetLocal(p) \/ FindClsact(p)
               \/ AddClsact(p) \/ FindIngress(p) \/ AttachIngress(p)
               \/ AttachEgress(p) \/ Fail(p) \/ Del(p)
        PROVE  (NodeTyped /\ NodeReady /\ PodReady)'
    <2> NodeOf[p] \in Nodes
      OBVIOUS
    <2>1. CASE FindGateway(p)
      BY <2>1 DEF FindGateway
    <2>2. CASE AddGateway(p)
      BY <2>2 DEF AddGateway
    <2>3. CASE UpGateway(p)
      BY <2>3 DEF UpGateway
    <2>4. CASE FindIp(p)
      BY <2>4 DEF FindIp
    <2>5. CASE SetIp(p)
      BY <2>5 DEF SetIp
    <2>6. CASE Address(p)
      BY <2>6 DEF Address
    <2>7. CASE SetLxc(p)
      BY <2>7 DEF SetLxc
    <2>8. CASE AttachVeth(p)
      BY <2>8 DEF AttachVeth
    <2>9. CASE FindVxlan(p)
      BY <2>9 DEF FindVxlan
    <2>10. CASE AddVxlan(p)
      BY <2>10 DEF AddVxlan, TearDown
    <2>11. CASE UpVxlan(p)
      BY <2>11 DEF UpVxlan
    <2>12. CASE SetLocal(p)
      BY <2>12 DEF SetLocal
    <2>13. CASE FindClsact(p)
      BY <2>13 DEF FindClsact
    <2>14. CASE AddClsact(p)
      BY <2>14 DEF AddClsact, TearDown
    <2>15. CASE FindIngress(p)
      BY <2>15 DEF FindIngress
    <2>16. CASE AttachIngress(p)
      BY <2>16 DEF AttachIngress
    <2>17. CASE AttachEgress(p)
      BY <2>17 DEF AttachEgress
    <2>18. CASE Fail(p)
      BY <2>18 DEF Fail, TearDown
    <2>19. CASE Del(p)
      BY <2>19 DEF Del, TearDown
    <2> QED
      BY <1>n, <2>1, <2>2, <2>3, <2>4, <2>5, <2>6, <2>7, <2>8, <2>9, <2>10, <2>11,
         <2>12, <2>13, <2>14, <2>15, <2>16, <2>17, <2>18, <2>19
  <1>d. ASSUME NEW n \in Nodes, NEW m \in Nodes, Wipe(n, m) \/ WipeOnly(n, m) \/ Put(n, m)
        PROVE  UNCHANGED <<pc, pair, record, lxc, filter, device>>
    BY <1>d DEF Wipe, WipeOnly, Handle, Put
  <1> QED
    BY <1>u, <1>s, <1>d, <1>n, NextCases

LEMMA PathAlways == Spec => []PathInv
  BY PathInit, PathStep, PTL DEF Spec

-----------------------------------------------------------------------------
\* Every variable keeps its type; a device has programs or an entry in the local
\* map only if it exists, a program only with the qdisc, and the pod maps hold pods
\* of other nodes that have an address.
THEOREM TypeCorrect == Spec => []TypeOK
  <1>1. PathInv => TypeOK
    BY DEF PathInv, NodeTyped, EventsTyped, Foreign, TypeOK
  <1> QED
    BY <1>1, PathAlways, PTL

\* A pod whose ADD has returned has its gateway, whichever ADD made it and
\* wherever that one died (vxlan.go:83-92, 119-131).
THEOREM GatewayAlwaysThere == Spec => []GatewayThere
  <1>1. PathInv => GatewayThere
    BY DEF PathInv, NodeReady, GatewayThere, Up, HasGatewayUp, HasGatewayIp, HasAddress,
           HasLxc, HasFilter, HasVxlan, HasLocal, HasClsact, HasIngress, HasEgress
  <1> QED
    BY <1>1, PathAlways, PTL

\* Two pods of one node whose ADDs have returned reach each other, whatever other
\* ADDs do or failed to do (veth_ingress.c:81-89).
THEOREM LocalPodsAlwaysReached == Spec => []LocalPodsReached
  <1>1. ASSUME PathInv, NEW s \in Pods, NEW d \in Pods,
               Up(s), Up(d), NodeOf[s] = NodeOf[d]
        PROVE  Arrives(s, d)
    <2>1. s \in filter /\ d \in lxc
      BY <1>1 DEF PathInv, PodReady, Up, HasFilter, HasLxc, HasVxlan, HasLocal,
                  HasClsact, HasIngress, HasEgress
    <2> QED
      BY <1>1, <2>1 DEF Arrives, Wired, VethIngress, Up
  <1>2. PathInv => LocalPodsReached
    BY <1>1 DEF LocalPodsReached
  <1> QED
    BY <1>2, PathAlways, PTL

\* Where the vxlan device is up, whichever ADD made it and whatever became of that
\* ADD, a pod whose ADD has returned reaches every pod whose ADD has returned and
\* that its node has heard of (vxlan.go:302-324).
THEOREM PodsAlwaysReached == Spec => []PodsReached
  <1>1. ASSUME PathInv, NEW s \in Pods, NEW d \in Pods, Up(s), Up(d), Known(s, d),
               vxlan[NodeOf[s]] = "up", vxlan[NodeOf[d]] = "up"
        PROVE  Arrives(s, d)
    <2>1. s \in filter /\ d \in lxc
      BY <1>1 DEF PathInv, PodReady, Up, HasFilter, HasLxc, HasVxlan, HasLocal,
                  HasClsact, HasIngress, HasEgress
    <2>2. NodeOf[s] \in local \cap egress /\ NodeOf[d] \in ingress
      BY <1>1 DEF PathInv, NodeReady, Up, HasLocal, HasClsact, HasIngress, HasEgress
    <2>3. VxlanIngress(NodeOf[d], d)
      BY <1>1, <2>1, <2>2 DEF VxlanIngress, Wired, Up
    <2>4. VethIngress(NodeOf[s], d)
      BY <1>1, <2>1, <2>2, <2>3 DEF VethIngress, VxlanEgress, Known, Wired, Up
    <2> QED
      BY <1>1, <2>1, <2>4 DEF Arrives, Wired, Up
  <1>2. PathInv => PodsReached
    BY <1>1 DEF PodsReached
  <1> QED
    BY <1>2, PathAlways, PTL

-----------------------------------------------------------------------------
(***************************************************************************)
(* What "in the end" rests on: a device that is down is about to be set up *)
(* unless an ADD has failed, and what is reached stays reached.            *)
(***************************************************************************)

\* The ADD that adds the device is the one that sets it up.
DownIsSetUp ==
    fails > 0 \/ \A n \in Nodes : vxlan[n] = "down" =>
                     \E p \in Pods : NodeOf[p] = n /\ pc[p] = "setup"

SetUpInv == PathInv /\ DownIsSetUp

LEMMA SetUpStep == SetUpInv /\ [Next]_vars => SetUpInv'
  <1> SUFFICES ASSUME SetUpInv, [Next]_vars PROVE DownIsSetUp'
    BY PathStep DEF SetUpInv
  <1>t. /\ fails \in Nat /\ vxlan \in [Nodes -> {"none", "down", "up"}]
        /\ pc \in [Pods -> {"idle", "addGateway", "upGateway", "findIp", "setIp",
                        "address", "lxc", "filter", "find", "add", "setup", "local",
                        "ingress", "addClsact", "findIngress", "attach", "egress", "up",
                        "dead"}]
        /\ NodeOf \in [Pods -> Nodes]
    BY DatapathAssumption DEF SetUpInv, PathInv, NodeTyped
  <1> USE <1>t DEF SetUpInv, DownIsSetUp, Goto, TearDown, device, pair, after
  <1>1. CASE UNCHANGED vars
    BY <1>1 DEF vars
  <1>2. ASSUME NEW n \in Nodes, NEW m \in Nodes, Wipe(n, m) \/ WipeOnly(n, m) \/ Put(n, m)
        PROVE  DownIsSetUp'
    <2>1. UNCHANGED <<pc, vxlan>> /\ fails' \in {fails, fails + 1}
      BY <1>2 DEF Wipe, WipeOnly, Handle, Put
    <2> QED
      BY <2>1
  <1>3. ASSUME NEW p \in Pods, Fail(p) PROVE DownIsSetUp'
    BY <1>3 DEF Fail
  <1>4. ASSUME NEW p \in Pods, AddVxlan(p) PROVE DownIsSetUp'
    <2>1. CASE vxlan[NodeOf[p]] = "none"
      BY <1>4, <2>1 DEF AddVxlan
    <2>2. CASE vxlan[NodeOf[p]] # "none"
      BY <1>4, <2>2 DEF AddVxlan
    <2> QED
      BY <2>1, <2>2
  <1>5. ASSUME NEW p \in Pods, UpVxlan(p) PROVE DownIsSetUp'
    BY <1>5 DEF UpVxlan
  <1>6. ASSUME NEW p \in Pods,
               \/ FindGateway(p) \/ AddGateway(p) \/ UpGateway(p) \/ FindIp(p) \/ SetIp(p)
               \/ Address(p) \/ SetLxc(p) \/ AttachVeth(p) \/ FindVxlan(p) \/ SetLocal(p)
               \/ FindClsact(p) \/ AddClsact(p) \/ FindIngress(p) \/ AttachIngress(p)
               \/ AttachEgress(p) \/ Del(p)
        PROVE  DownIsSetUp'
    <2>1. vxlan' = vxlan /\ fails' = fails
      BY <1>6 DEF FindGateway, AddGateway, UpGateway, FindIp, SetIp, Address, SetLxc,
         AttachVeth, FindVxlan, SetLocal, FindClsact, AddClsact, FindIngress,
         AttachIngress, AttachEgress, Del
    <2>2. \A q \in Pods : pc[q] = "setup" => pc'[q] = "setup"
      BY <1>6 DEF FindGateway, AddGateway, UpGateway, FindIp, SetIp, Address, SetLxc,
         AttachVeth, FindVxlan, SetLocal, FindClsact, AddClsact, FindIngress,
         AttachIngress, AttachEgress, Del
    <2> QED
      BY <2>1, <2>2
  <1> QED
    BY <1>1, <1>2, <1>3, <1>4, <1>5, <1>6, NextCases

\* Until an ADD fails, a vxlan device that is down has an ADD that is about to set it
\* up, also when others have found it and returned (nettools.go:166-194).
THEOREM DownNotForLong == Spec => []DownIsSetUp
  <1>1. Init => SetUpInv
    BY PathInit DEF SetUpInv, Init, DownIsSetUp
  <1>2. SetUpInv => DownIsSetUp
    BY DEF SetUpInv
  <1> QED
    BY <1>1, <1>2, SetUpStep, PTL DEF Spec

\* The daemon of a node takes an event, for which it empties the node's pod map.
Cleared(n) == \E m \in Nodes : Wipe(n, m) \/ WipeOnly(n, m)

\* A pod that is reached is reached for as long as the two pods are there, but that
\* the daemon of the sender's node may cut it off from the pods of other nodes.
StaysReached ==
    \A s, d \in Pods :
        Up(s) /\ Up(d) /\ Arrives(s, d) /\ Up(s)' /\ Up(d)' =>
            \/ Arrives(s, d)'
            \/ NodeOf[s] # NodeOf[d] /\ Cleared(NodeOf[s])

LEMMA DatapathGrows ==
    ASSUME PathInv, Next
    PROVE  /\ local \subseteq local' /\ ingress \subseteq ingress' /\ egress \subseteq egress'
           /\ lxc \subseteq lxc'
           /\ \A n \in Nodes : podMap[n] \subseteq podMap'[n] \/ Cleared(n)
           /\ \A n \in Nodes : vxlan[n] = "up" => vxlan'[n] = "up"
           /\ \A p \in filter : p \in filter' \/ ~ Up(p)'
  <1>t. /\ pc \in [Pods -> {"idle", "addGateway", "upGateway", "findIp", "setIp",
                        "address", "lxc", "filter", "find", "add", "setup", "local",
                        "ingress", "addClsact", "findIngress", "attach", "egress", "up",
                        "dead"}]
        /\ vxlan \in [Nodes -> {"none", "down", "up"}] /\ filter \subseteq Pods
        /\ podMap \in [Nodes -> SUBSET Pods]
        /\ NodeOf \in [Pods -> Nodes]
    BY DatapathAssumption DEF PathInv, NodeTyped, EventsTyped
  <1> USE <1>t DEF Goto, TearDown, device, programs, pair, events, after, Up
  <1>1. ASSUME NEW n \in Nodes, NEW m \in Nodes, Wipe(n, m) \/ WipeOnly(n, m) \/ Put(n, m)
        PROVE  /\ UNCHANGED <<pc, lxc, filter, device>>
               /\ \A k \in Nodes : podMap[k] \subseteq podMap'[k] \/ Cleared(k)
    <2>1. CASE Wipe(n, m) \/ WipeOnly(n, m)
      <3>1. podMap' = [podMap EXCEPT ![n] = {}] /\ Cleared(n)
        BY <2>1 DEF Wipe, WipeOnly, Handle, Cleared
      <3> QED
        BY <2>1, <3>1 DEF Wipe, WipeOnly, Handle
    <2>2. CASE Put(n, m)
      BY <2>2 DEF Put
    <2> QED
      BY <1>1, <2>1, <2>2
  <1>2. ASSUME NEW p \in Pods,
               \/ FindGateway(p) \/ AddGateway(p) \/ UpGateway(p)
               \/ FindIp(p) \/ SetIp(p) \/ Address(p) \/ SetLxc(p)
               \/ AttachVeth(p) \/ FindVxlan(p) \/ AddVxlan(p)
               \/ UpVxlan(p) \/ SetLocal(p) \/ FindClsact(p)
               \/ AddClsact(p) \/ FindIngress(p) \/ AttachIngress(p)
               \/ AttachEgress(p) \/ Fail(p) \/ Del(p)
        PROVE  /\ local \subseteq local' /\ ingress \subseteq ingress'
               /\ egress \subseteq egress' /\ lxc \subseteq lxc'
               /\ podMap' = podMap
               /\ \A n \in Nodes : vxlan[n] = "up" => vxlan'[n] = "up"
               /\ \A q \in filter : q \in filter' \/ ~ Up(q)'
    BY <1>2 DEF FindGateway, AddGateway, UpGateway, FindIp, SetIp, Address, SetLxc,
       AttachVeth, FindVxlan, AddVxlan, UpVxlan, SetLocal, FindClsact, AddClsact,
       FindIngress, AttachIngress, AttachEgress, Fail, Del
  <1> QED
    BY <1>1, <1>2, NextCases

\* Nothing an ADD, a failure or a DEL does cuts off two pods that reach each other,
\* but the end of one of them: the programs and map entries that the pods of a node
\* share are never taken away.  What does is an event of any record, for which the
\* daemon of the sender's node empties the pod map (mapprocessor.go:129), and it cuts
\* off pods of different nodes only.
THEOREM ReachedStaysReached == Spec => [][StaysReached]_vars
  <1>1. PathInv /\ [Next]_vars => [StaysReached]_vars
    <2> SUFFICES ASSUME PathInv, Next, NEW s \in Pods, NEW d \in Pods,
                        Up(s), Up(d), Arrives(s, d), Up(s)', Up(d)',
                        NodeOf[s] = NodeOf[d] \/ ~Cleared(NodeOf[s])
                 PROVE  Arrives(s, d)'
      BY DEF StaysReached
    <2>1. NodeOf[s] \in Nodes /\ NodeOf[d] \in Nodes
      BY DatapathAssumption
    <2>2. Wired(s)' /\ Wired(d)' /\ s \in filter'
      BY DatapathGrows DEF Arrives, Wired, Up
    <2>3. VethIngress(NodeOf[s], d)'
      <3>1. CASE NodeOf[s] = NodeOf[d]
        <4>1. d \in lxc
          BY DEF PathInv, PodReady, Up, HasLxc, HasFilter, HasVxlan, HasLocal, HasClsact,
                 HasIngress, HasEgress
        <4> QED
          BY <2>2, <3>1, <4>1, DatapathGrows DEF VethIngress
      <3>2. CASE ~Cleared(NodeOf[s])
        BY <2>1, <2>2, <3>2, DatapathGrows
           DEF Arrives, VethIngress, VxlanEgress, VxlanIngress
      <3> QED
        BY <3>1, <3>2
    <2> QED
      BY <2>2, <2>3 DEF Arrives
  <1> QED
    BY <1>1, PathAlways, PTL DEF Spec

=============================================================================
