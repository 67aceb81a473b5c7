----------------------------- MODULE SubnetPool -----------------------------
(***************************************************************************)
(* How a node gets its pod network (ipam/ipam.go, _GetIpamService).        *)
(*                                                                         *)
(* Every CNI command is an operating-system process, and every accessor of *)
(* the ipam package runs the whole service initialisation again, so many   *)
(* copies of it run at the same time: on different nodes, and for different *)
(* pods of one node.  They share four kinds of etcd keys and no transaction:*)
(*     .../pool            the networks nobody has taken yet               *)
(*     .../<host>          the network of a node                           *)
(*     .../<host>/<net>/range  the address range configured for it         *)
(*     .../maps            network -> node, read by the vxlan datapath     *)
(* One Get or Set of etcd is one action; between any two of them the       *)
(* process can be killed, or etcd can answer with an error, which makes the *)
(* initialisation return (Fail).  The package's mutex is local to a process *)
(* and excludes nobody here.                                               *)
(***************************************************************************)
EXTENDS Naturals, FiniteSets

CONSTANTS
    Procs,      \* CNI processes that initialise the ipam service
    Hosts,      \* nodes of the cluster
    HostOf,     \* the node a process runs on
    Nets,       \* the networks ipsPoolInit generates
    NoNet,      \* the empty string: no network
    NoHost,     \* no entry in the maps key
    Ranged,     \* TRUE when the configuration names a range of two or more addresses
    Overlap,    \* <<p, q>> \in Overlap: p may start while q is initialising
    MaxFails    \* bound: how many initialisations may die half way

ASSUME SubnetPoolAssumption ==
    /\ HostOf \in [Procs -> Hosts]
    /\ NoNet \notin Nets
    /\ NoHost \notin Hosts
    /\ Nets # {} /\ IsFiniteSet(Nets)
    /\ Ranged \in BOOLEAN
    /\ Overlap \subseteq Procs \X Procs
    /\ MaxFails \in Nat

VARIABLES
    pool,       \* etcd: the pool key; {} is the missing key and the empty value
    hostNet,    \* etcd: the <host> keys
    ranges,     \* etcd: the <host>/<net>/range keys that exist
    maps,       \* etcd: the maps key, NoHost where there is no entry
    pc,         \* the next etcd call of each process
    net,        \* local: currentHostNetwork
    rest,       \* local: the pool without the network just picked
    mapsSeen,   \* local: the maps value read last
    fills,      \* auxiliary: how often the pool was filled (2: more than once)
    fails       \* auxiliary: failures so far, for the bound

etcdVars == <<pool, hostNet, ranges, maps>>
vars == <<pool, hostNet, ranges, maps, pc, net, rest, mapsSeen, fills, fails>>

MaybeNet == Nets \cup {NoNet}
NoMaps == [n \in MaybeNet |-> NoHost]

Resting == {"idle", "served"}
Steps == {"pool", "fill", "net", "take", "setPool", "setHost", "setRange",
          "map", "setMap"}

Busy(p) == pc[p] \notin Resting
Goto(p, s) == pc' = [pc EXCEPT ![p] = s]

----------------------------------------------------------------------------
Init ==
    /\ pool = {}
    /\ hostNet = [h \in Hosts |-> NoNet]
    /\ ranges = {}
    /\ maps = NoMaps
    /\ pc = [p \in Procs |-> "idle"]
    /\ net = [p \in Procs |-> NoNet]
    /\ rest = [p \in Procs |-> {}]
    /\ mapsSeen = [p \in Procs |-> NoMaps]
    /\ fills = 0
    /\ fails = 0

\* GetIpamService: nothing is cached, every call initialises again.
Start(p) ==
    /\ ~Busy(p)
    /\ \A q \in Procs : Busy(q) => <<p, q>> \in Overlap
    /\ Goto(p, "pool")
    /\ net' = [net EXCEPT ![p] = NoNet]
    /\ UNCHANGED <<etcdVars, rest, mapsSeen, fills, fails>>

\* ipsPoolInit reads the pool and returns when there is something in it.
PoolGet(p) ==
    /\ pc[p] = "pool"
    /\ Goto(p, IF pool = {} THEN "fill" ELSE "net")
    /\ UNCHANGED <<etcdVars, net, rest, mapsSeen, fills, fails>>

\* ... and otherwise writes all the networks, whoever took some of them before.
PoolFill(p) ==
    /\ pc[p] = "fill"
    /\ pool' = Nets
    /\ fills' = IF fills = 0 THEN 1 ELSE 2
    /\ Goto(p, "net")
    /\ UNCHANGED <<hostNet, ranges, maps, net, rest, mapsSeen, fails>>

NetGet_ForgetsOwner(p) ==
    /\ pc[p] = "net"
    /\ Goto(p, "take")
    /\ UNCHANGED <<etcdVars, net, rest, mapsSeen, fills, fails>>

\* networkInit: a node that has a network keeps it.
NetGet(p) ==
    /\ pc[p] = "net"
    /\ IF hostNet[HostOf[p]] # NoNet
       THEN /\ net' = [net EXCEPT ![p] = hostNet[HostOf[p]]]
            /\ Goto(p, "map")
       ELSE /\ Goto(p, "take")
            /\ UNCHANGED net
    /\ UNCHANGED <<etcdVars, rest, mapsSeen, fills, fails>>

Pick_KeepsInPool(p, n) ==
    /\ net' = [net EXCEPT ![p] = n]
    /\ rest' = [rest EXCEPT ![p] = pool]

Pick_LeavesSeparator(p, n) ==
    /\ net' = [net EXCEPT ![p] = n]
    /\ rest' = [rest EXCEPT ![p] = (pool \ {n}) \cup {NoNet}]

Pick(p, n) ==
    /\ net' = [net EXCEPT ![p] = n]
    /\ rest' = [rest EXCEPT ![p] = pool \ {n}]

\* networkInit reads the pool again and picks one network at random.  Splitting
\* an empty pool gives one empty name, which is then picked.
Take(p) ==
    /\ pc[p] = "take"
    /\ \E n \in IF pool = {} THEN {NoNet} ELSE pool : Pick(p, n)
    /\ Goto(p, "setPool")
    /\ UNCHANGED <<etcdVars, mapsSeen, fills, fails>>

PoolSet_Skipped(p) ==
    /\ pc[p] = "setPool"
    /\ rest' = [rest EXCEPT ![p] = {}]
    /\ Goto(p, "setHost")
    /\ UNCHANGED <<etcdVars, net, mapsSeen, fills, fails>>

\* The pool is written first ...
PoolSet(p) ==
    /\ pc[p] = "setPool"
    /\ pool' = rest[p]
    /\ rest' = [rest EXCEPT ![p] = {}]
    /\ Goto(p, "setHost")
    /\ UNCHANGED <<hostNet, ranges, maps, net, mapsSeen, fills, fails>>

\* ... then the node's own key ...
HostSet(p) ==
    /\ pc[p] = "setHost"
    /\ hostNet' = [hostNet EXCEPT ![HostOf[p]] = net[p]]
    /\ Goto(p, IF Ranged THEN "setRange" ELSE "map")
    /\ UNCHANGED <<pool, ranges, maps, net, rest, mapsSeen, fills, fails>>

RangeSet_WrongKey(p) ==
    /\ pc[p] = "setRange"
    /\ ranges' = ranges \cup {<<HostOf[p], NoNet>>}
    /\ Goto(p, "map")
    /\ UNCHANGED <<pool, hostNet, maps, net, rest, mapsSeen, fills, fails>>

\* ... then the range, under the network just taken.
RangeSet(p) ==
    /\ pc[p] = "setRange"
    /\ ranges' = ranges \cup {<<HostOf[p], net[p]>>}
    /\ Goto(p, "map")
    /\ UNCHANGED <<pool, hostNet, maps, net, rest, mapsSeen, fills, fails>>

MapGet_OnlyWhenEmpty(p) ==
    /\ pc[p] = "map"
    /\ IF maps # NoMaps
       THEN Goto(p, "served") /\ UNCHANGED mapsSeen
       ELSE Goto(p, "setMap") /\ mapsSeen' = [mapsSeen EXCEPT ![p] = maps]
    /\ UNCHANGED <<etcdVars, net, rest, fills, fails>>

\* subnetMapInit reads the whole map and stops when the network has an entry.
MapGet(p) ==
    /\ pc[p] = "map"
    /\ IF maps[net[p]] # NoHost
       THEN Goto(p, "served") /\ UNCHANGED mapsSeen
       ELSE Goto(p, "setMap") /\ mapsSeen' = [mapsSeen EXCEPT ![p] = maps]
    /\ UNCHANGED <<etcdVars, net, rest, fills, fails>>

\* It writes the whole map back, from the value it read.
MapSet(p) ==
    /\ pc[p] = "setMap"
    /\ maps' = [mapsSeen[p] EXCEPT ![net[p]] = HostOf[p]]
    /\ mapsSeen' = [mapsSeen EXCEPT ![p] = NoMaps]
    /\ Goto(p, "served")
    /\ UNCHANGED <<pool, hostNet, ranges, net, rest, fills, fails>>

\* The process is killed, or the next etcd call returns an error.
Fail(p) ==
    /\ Busy(p)
    /\ fails < MaxFails
    /\ fails' = fails + 1
    /\ Goto(p, "idle")
    /\ net' = [net EXCEPT ![p] = NoNet]
    /\ rest' = [rest EXCEPT ![p] = {}]
    /\ mapsSeen' = [mapsSeen EXCEPT ![p] = NoMaps]
    /\ UNCHANGED <<etcdVars, fills>>

Step(p) ==
    \/ PoolGet(p) \/ PoolFill(p)
    \/ NetGet(p) \/ Take(p) \/ PoolSet(p) \/ HostSet(p) \/ RangeSet(p)
    \/ MapGet(p) \/ MapSet(p)

Next == \E p \in Procs : Start(p) \/ Step(p) \/ Fail(p)

Spec == Init /\ [][Next]_vars

\* A process that runs keeps running, and a node keeps asking: the kubelet
\* retries a pod, and one command alone calls GetIpamService many times.  The
\* strong form is for runs in which others may be initialising whenever the
\* process could start.
FairSpec == Spec /\ \A p \in Procs : WF_vars(Step(p)) /\ SF_vars(Start(p))

----------------------------------------------------------------------------
TypeOK ==
    /\ pool \subseteq Nets
    /\ hostNet \in [Hosts -> MaybeNet]
    /\ ranges \subseteq Hosts \X MaybeNet
    /\ maps \in [MaybeNet -> Hosts \cup {NoHost}]
    /\ pc \in [Procs -> Resting \cup Steps]
    /\ net \in [Procs -> MaybeNet]
    /\ rest \in [Procs -> SUBSET Nets]
    /\ mapsSeen \in [Procs -> [MaybeNet -> Hosts \cup {NoHost}]]
    /\ fills \in 0..2
    /\ fails \in 0..MaxFails

Assigned == {hostNet[h] : h \in Hosts} \ {NoNet}

\* "Each node selects a network that is not used yet" (ipam.go:470-471): no two
\* nodes have the same network.
NetworksDistinct ==
    \A g, h \in Hosts : g # h /\ hostNet[g] = hostNet[h] => hostNet[g] = NoNet

\* As long as the pool was filled only once, no two nodes share a network and
\* the pool does not offer a network some node has, whatever dies in between.
OncePerFill ==
    fills <= 1 => NetworksDistinct /\ pool \cap Assigned = {}

\* Networks in nobody's hands: not in the pool, not a node's, and not about to
\* become one.
InFlight == {net[p] : p \in {q \in Procs : pc[q] = "setHost"}}
Lost == Nets \ (pool \cup Assigned \cup InFlight)

\* An initialisation that dies loses at most the one network it had taken out
\* of the pool (ipam.go:343 before :348); nothing else ever loses one.
LossBoundedByFailures == fills = 1 => Cardinality(Lost) <= fails

\* What the service returns is what etcd says: the caller's network is the
\* node's, and the datapath's map leads from that network to this node.
ServedAgrees ==
    \A p \in Procs : fills <= 1 /\ pc[p] = "served" =>
        /\ net[p] = hostNet[HostOf[p]]
        /\ net[p] # NoNet
        /\ maps[net[p]] = HostOf[p]

\* Nodes that have a network and no range, with nobody about to write it.
Rangeless ==
    {h \in Hosts : /\ hostNet[h] # NoNet
                   /\ <<h, hostNet[h]>> \notin ranges
                   /\ \A p \in Procs : HostOf[p] = h => pc[p] # "setRange"}

\* "If a range of addresses is given, create a range directory" (ipam.go:359): with
\* a range configured a node is served without one only if an initialisation died
\* between the node's key and the range (ipam.go:348 before :366), after which the
\* node keeps its network and never gets the range.  Each such death costs one node
\* its range, and nothing else does.
RangeInstalled == Ranged => Cardinality(Rangeless) <= fails

\* The network of a node never changes once it has one, so that the addresses of
\* its pods, recorded under it, stay its own (getRecordPath).
NetworkStable ==
    [][\A h \in Hosts : hostNet[h] # NoNet => hostNet'[h] = hostNet[h]]_vars

\* The unsynchronised updates of maps can lose an entry, but the node that lost
\* it writes it again on its next call: in the end every node has a network, and
\* the datapath's map leads from it to a node that owns it, for good.
MapsLeadToOwner(h) ==
    /\ hostNet[h] # NoNet
    /\ maps[hostNet[h]] # NoHost
    /\ hostNet[maps[hostNet[h]]] = hostNet[h]

MapsConverge == \A h \in Hosts : <>[]MapsLeadToOwner(h)

----------------------------------------------------------------------------
Allocator == INSTANCE NetworkAllocator
                 WITH Hosts <- Hosts, Nets <- Nets, NoNet <- NoNet, hostNet <- hostNet

\* SubnetPool implements the atomic allocator, and does serve every node.
AllocatorFair == Allocator!FairSpec

=============================================================================
