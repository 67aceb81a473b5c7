----------------------------- MODULE PodMapSync -----------------------------
(***************************************************************************)
(* How a node of the vxlan mode learns where the pods of the other nodes   *)
(* are (plugins/vxlan/watcher).                                            *)
(*                                                                         *)
(* The first ADD on the node copies the other nodes' records from etcd into *)
(* the pinned pod map (StartMapWatcher) and leaves a daemon behind, which  *)
(* watches the record of every node that is in the maps key, and the maps  *)
(* key itself for nodes to come (StartWatch).  A watch delivers the values *)
(* written after it was made, in order, to a goroutine of its own; the     *)
(* goroutines of different keys run at the same time and share the pod map *)
(* and the two slices the callback has captured (prevKeys, prevValues).    *)
(* The pod map is pinned: it survives the daemon, and has room for a fixed *)
(* number of addresses.  The daemon may be killed, a watch channel may     *)
(* close and lose what it has not delivered, etcd may not answer, the      *)
(* address of a node may not be read, and threads that meet in ipam's      *)
(* accessors end the process or leave its mutex locked (IpamLock).         *)
(***************************************************************************)
EXTENDS Naturals, Sequences, FiniteSets

CONSTANTS
    Nodes,      \* the other nodes of the cluster
    Pods,       \* pod addresses
    NodeOf,     \* the node an address belongs to
    NoNode,     \* what an address that is not in the pod map maps to
    MaxEntries, \* how many entries the pod map has room for
    MaxWrites,  \* bound: writes to the records
    MaxFaults   \* bound: kills of the daemon, watch channels that close, errors of
                \* etcd, and addresses of nodes that cannot be read

ASSUME PodMapSyncAssumption ==
    /\ IsFiniteSet(Pods) /\ NodeOf \in [Pods -> Nodes]
    /\ NoNode \notin Nodes \cup Pods
    /\ MaxEntries \in Nat \ {0} /\ MaxWrites \in Nat /\ MaxFaults \in Nat

VARIABLES
    record,     \* etcd: the record of each node; {} is the empty value
    maps,       \* etcd: the nodes in the maps key
    podMap,     \* kernel: the node of each address in the pinned pod map
    main,       \* the next step of the thread that starts the watches
    boot,       \* local to it: the addresses read so far
    toRead,     \* local to it: nodes whose record is still to be read
    toWatch,    \* nodes still to be watched by main or by the maps callback
    watched,    \* watchingMap: nodes whose record is watched
    open,       \* those of them whose watch channel is open
    mapsSeen,   \* events of the maps key that are not handled yet
    mapsValue,  \* local to its callback: the nodes of the event it is handling
    mapsWatch,  \* the watch on the maps key: none, open or closed
    events,     \* events of each record that are not handled yet
    handler,    \* the next step of each record's goroutine
    value,      \* local to it: the addresses of the event it is handling
    keys,       \* local to it: the keys DeleteAllPodMap has collected
    callback,   \* whether there is one; it is nil when the first copy failed
    nodeIps,    \* nodeIpCache: the nodes whose address is cached
    hung,       \* whether ipam's mutex is held for good (IpamLock)
    prevKeys,   \* shared by the goroutines: the addresses to put
    prevValues, \* shared by them: the node and how often it is repeated
    applied,    \* auxiliary: the value of each record that was put last
    writes,     \* writes so far, for the bound
    faults      \* faults so far, for the bound

etcdVars == <<record, maps>>
threadVars == <<main, boot, toRead, toWatch, mapsSeen, mapsValue, mapsWatch>>
watchVars == <<watched, open>>
prevVars == <<prevKeys, prevValues>>
ipamVars == <<nodeIps, hung>>
handlerVars == <<handler, value, keys, callback, prevVars, applied>>
vars == <<etcdVars, podMap, threadVars, watchVars, events, ipamVars, handlerVars,
          writes, faults>>

NoValues == [node |-> NoNode, count |-> 0]
Unknown == {NoNode}
EmptyIP == NoNode       \* what an empty record splits into

Present == {i \in Pods : podMap[i] # NoNode}

IPsOf(n) == {i \in Pods : NodeOf[i] = n}

Nothing == [n \in Nodes |-> {}]
Quiet == [n \in Nodes |-> <<>>]
AllIdle == [n \in Nodes |-> "idle"]
Never == [n \in Nodes |-> Unknown]

----------------------------------------------------------------------------
Init ==
    /\ record = Nothing
    /\ maps = {}
    /\ podMap = [i \in Pods |-> NoNode]
    /\ main = "down"
    /\ boot = {} /\ toRead = {} /\ toWatch = {}
    /\ watched = {} /\ open = {}
    /\ mapsSeen = <<>> /\ mapsValue = {} /\ mapsWatch = "none"
    /\ events = Quiet
    /\ handler = AllIdle /\ value = Nothing /\ keys = Nothing
    /\ callback = TRUE /\ nodeIps = {} /\ hung = FALSE
    /\ prevKeys = {} /\ prevValues = NoValues
    /\ applied = Never
    /\ writes = 0 /\ faults = 0

\* The process is gone, with all its threads; the pinned map and etcd stay.
Dead ==
    /\ main' = "down"
    /\ boot' = {} /\ toRead' = {} /\ toWatch' = {}
    /\ watched' = {} /\ open' = {}
    /\ mapsSeen' = <<>> /\ mapsValue' = {} /\ mapsWatch' = "none"
    /\ events' = Quiet
    /\ handler' = AllIdle /\ value' = Nothing /\ keys' = Nothing
    /\ callback' = TRUE /\ nodeIps' = {} /\ hung' = FALSE
    /\ prevKeys' = {} /\ prevValues' = NoValues
    /\ applied' = Never

Fault == faults < MaxFaults /\ faults' = faults + 1

(***************************************************************************)
(* The other nodes                                                         *)
(***************************************************************************)

\* A node gets its network and enters the maps key (SubnetPool).
Join(n) ==
    /\ n \notin maps
    /\ maps' = maps \cup {n}
    /\ mapsSeen' = IF mapsWatch = "open" THEN Append(mapsSeen, maps') ELSE mapsSeen
    /\ UNCHANGED <<record, podMap, main, boot, toRead, toWatch, mapsValue, mapsWatch,
                   watchVars, events, ipamVars, handlerVars, writes, faults>>

\* A node writes its record: an address more, after a lost update others, or none
\* when somebody empties it by hand (README.md:177).
WriteRecord(n, ips) ==
    /\ n \in maps
    /\ writes < MaxWrites
    /\ ips # record[n]
    /\ record' = [record EXCEPT ![n] = ips]
    /\ events' = IF n \in open THEN [events EXCEPT ![n] = Append(@, ips)] ELSE events
    /\ writes' = writes + 1
    /\ UNCHANGED <<maps, podMap, threadVars, watchVars, ipamVars, handlerVars, faults>>

(***************************************************************************)
(* The pod map: batches over a map with room for MaxEntries addresses      *)
(***************************************************************************)

\* A batch stops at the first address there is no room for.
Batch(ips, put) ==
    /\ put \subseteq ips
    /\ IF Cardinality(Present \cup ips) <= MaxEntries
       THEN put = ips
       ELSE Cardinality(Present \cup put) = MaxEntries

Without(gone) == [i \in Pods |-> IF i \in gone THEN NoNode ELSE podMap[i]]

(***************************************************************************)
(* StartMapWatcher, then StartWatch in the daemon                          *)
(***************************************************************************)

\* An ADD finds no daemon and lists the nodes that have a network.
Begin ==
    /\ main = "down"
    /\ main' = "read"
    /\ boot' = {}
    /\ toRead' = maps
    /\ UNCHANGED <<etcdVars, podMap, toWatch, mapsSeen, mapsValue, mapsWatch,
                   watchVars, events, ipamVars, handlerVars, writes, faults>>

\* getAllInitPath reads one node's record.  The empty record of a node that has
\* no pod yet splits into one empty address.
ReadRecord(n) ==
    /\ main = "read"
    /\ n \in toRead
    /\ boot' = boot \cup (IF record[n] = {} THEN {EmptyIP} ELSE record[n])
    /\ toRead' = toRead \ {n}
    /\ UNCHANGED <<etcdVars, podMap, main, toWatch, mapsSeen, mapsValue, mapsWatch,
                   watchVars, events, ipamVars, handlerVars, writes, faults>>

FillPodMap_GivesUp ==
    /\ main = "read"
    /\ toRead = {}
    /\ IF EmptyIP \notin boot /\ Batch(boot, boot)
       THEN /\ podMap' = [i \in Pods |-> IF i \in boot THEN NodeOf[i] ELSE podMap[i]]
            /\ nodeIps' = {NodeOf[i] : i \in boot}
            /\ boot' = {}
            /\ main' = "maps"
            /\ UNCHANGED <<toRead, toWatch, mapsSeen, mapsValue, mapsWatch, watchVars,
                           events, hung, handlerVars>>
       ELSE Dead /\ UNCHANGED podMap
    /\ UNCHANGED <<etcdVars, writes, faults>>

\* InitRecordSyncProcessor converts what was read, which panics for the empty
\* address, and adds it to the pod map.  If there is no room for all of it there
\* is no callback.
FillPodMap ==
    /\ main = "read"
    /\ toRead = {}
    /\ IF EmptyIP \in boot
       THEN Dead /\ UNCHANGED podMap
       ELSE /\ \E put \in SUBSET boot :
                   /\ Batch(boot, put)
                   /\ podMap' = [i \in Pods |-> IF i \in put THEN NodeOf[i] ELSE podMap[i]]
                   /\ callback' = (put = boot)
            /\ nodeIps' = {NodeOf[i] : i \in boot}
            /\ boot' = {}
            /\ main' = "maps"
            /\ UNCHANGED <<toRead, toWatch, mapsSeen, mapsValue, mapsWatch, watchVars,
                           events, hung, handler, value, keys, prevVars, applied>>
    /\ UNCHANGED <<etcdVars, writes, faults>>

\* If the address of a node cannot be read it adds nothing, and goes on.
FillFails ==
    /\ main = "read"
    /\ toRead = {} /\ boot # {}
    /\ Fault
    /\ boot' = {}
    /\ main' = "maps"
    /\ UNCHANGED <<etcdVars, podMap, toRead, toWatch, mapsSeen, mapsValue, mapsWatch,
                   watchVars, events, ipamVars, handlerVars, writes>>

ShouldWatch_OnlyNewest(ms) == {n \in ms : \A m \in ms : m \in watched \/ m = n}

ShouldWatch_Again(ms) == ms

\* getShouldWatchPath: the nodes of the maps key that are not watched yet.
ShouldWatch(ms) == ms \ watched

\* StartWatch reads the maps key and watches the records of its nodes ...
ReadMaps ==
    /\ main = "maps"
    /\ toWatch' = ShouldWatch(maps)
    /\ main' = "watch"
    /\ UNCHANGED <<etcdVars, podMap, boot, toRead, mapsSeen, mapsValue, mapsWatch,
                   watchVars, events, ipamVars, handlerVars, writes, faults>>

\* An error of etcd ends it there, unnoticed: the daemon is there and watches nothing.
ReadMapsFails ==
    /\ main = "maps"
    /\ Fault
    /\ main' = "serve"
    /\ UNCHANGED <<etcdVars, podMap, boot, toRead, toWatch, mapsSeen, mapsValue,
                   mapsWatch, watchVars, events, ipamVars, handlerVars, writes>>

\* ... one after the other, with a second of sleep after each (doWatch) ...
WatchRecord(n) ==
    /\ main \in {"watch", "more"}
    /\ n \in toWatch
    /\ watched' = watched \cup {n} /\ open' = open \cup {n}
    /\ toWatch' = toWatch \ {n}
    /\ UNCHANGED <<etcdVars, podMap, main, boot, toRead, mapsSeen, mapsValue,
                   mapsWatch, events, ipamVars, handlerVars, writes, faults>>

\* ... and then the maps key.
WatchMaps ==
    /\ main = "watch"
    /\ toWatch = {}
    /\ mapsWatch' = "open"
    /\ main' = "serve"
    /\ UNCHANGED <<etcdVars, podMap, boot, toRead, toWatch, mapsSeen, mapsValue,
                   watchVars, events, ipamVars, handlerVars, writes, faults>>

\* The callback of the maps key watches the nodes that are new to it.
MapsEvent ==
    /\ main = "serve" /\ ~ hung
    /\ mapsSeen # <<>>
    /\ mapsValue' = Head(mapsSeen)
    /\ mapsSeen' = Tail(mapsSeen)
    /\ toWatch' = ShouldWatch(mapsValue')
    /\ main' = "more"
    /\ UNCHANGED <<etcdVars, podMap, boot, toRead, mapsWatch, watchVars, events,
                   ipamVars, handlerVars, writes, faults>>

\* An error of etcd ends the callback, and the event is lost.
MapsEventFails ==
    /\ main = "serve" /\ ~ hung
    /\ mapsSeen # <<>>
    /\ Fault
    /\ mapsSeen' = Tail(mapsSeen)
    /\ UNCHANGED <<etcdVars, podMap, main, boot, toRead, toWatch, mapsValue, mapsWatch,
                   watchVars, events, ipamVars, handlerVars, writes>>

MapsDone ==
    /\ main = "more"
    /\ toWatch = {}
    /\ mapsValue' = {}
    /\ main' = "serve"
    /\ UNCHANGED <<etcdVars, podMap, boot, toRead, toWatch, mapsSeen, mapsWatch,
                   watchVars, events, ipamVars, handlerVars, writes, faults>>

(***************************************************************************)
(* A watch channel closes: what was not delivered yet is lost, and what is *)
(* written until it is opened again, at the revision of that time          *)
(***************************************************************************)

Close(n) ==
    /\ n \in open
    /\ Fault
    /\ open' = open \ {n}
    /\ events' = [events EXCEPT ![n] = <<>>]
    /\ UNCHANGED <<etcdVars, podMap, threadVars, watched, ipamVars, handlerVars, writes>>

Reopen(n) ==
    /\ n \in watched \ open /\ handler[n] = "idle"
    /\ open' = open \cup {n}
    /\ UNCHANGED <<etcdVars, podMap, threadVars, watched, events, ipamVars,
                   handlerVars, writes, faults>>

CloseMaps ==
    /\ mapsWatch = "open"
    /\ Fault
    /\ mapsWatch' = "closed"
    /\ mapsSeen' = <<>>
    /\ UNCHANGED <<etcdVars, podMap, main, boot, toRead, toWatch, mapsValue, watchVars,
                   events, ipamVars, handlerVars, writes>>

ReopenMaps ==
    /\ mapsWatch = "closed" /\ main = "serve"
    /\ mapsWatch' = "open"
    /\ UNCHANGED <<etcdVars, podMap, main, boot, toRead, toWatch, mapsSeen, mapsValue,
                   watchVars, events, ipamVars, handlerVars, writes, faults>>

(***************************************************************************)
(* The callback of a record (InitRecordSyncProcessor)                      *)
(***************************************************************************)

TakeEvent_OnlyFirst(n) ==
    /\ applied[n] = Unknown /\ handler[n] = "idle" /\ callback /\ ~ hung
    /\ events[n] # <<>>
    /\ value' = [value EXCEPT ![n] = Head(events[n])]
    /\ events' = [events EXCEPT ![n] = Tail(@)]
    /\ handler' = [handler EXCEPT ![n] = "address"]
    /\ UNCHANGED <<etcdVars, podMap, threadVars, watchVars, keys, callback, prevVars,
                   applied, ipamVars, writes, faults>>

\* The goroutine calls back with the next event.  Without a callback that panics,
\* and with ipam's mutex held for good it does not get past its first call.
TakeEvent(n) ==
    /\ handler[n] = "idle" /\ ~ hung
    /\ events[n] # <<>>
    /\ IF ~ callback
       THEN Dead
       ELSE /\ value' = [value EXCEPT ![n] = Head(events[n])]
            /\ events' = [events EXCEPT ![n] = Tail(@)]
            /\ handler' = [handler EXCEPT ![n] = "address"]
            /\ UNCHANGED <<threadVars, watchVars, keys, callback, prevVars, applied,
                           ipamVars>>
    /\ UNCHANGED <<etcdVars, podMap, writes, faults>>

\* getBatchMapKV asks for the address of the node, converts the addresses of the
\* pods and leaves them in prevKeys; converting the empty value panics.
Resolve(n) ==
    /\ handler[n] = "address"
    /\ IF value[n] = {}
       THEN Dead
       ELSE /\ nodeIps' = nodeIps \cup {n}
            /\ prevKeys' = value[n]
            /\ applied' = [applied EXCEPT ![n] = value[n]]
            /\ handler' = [handler EXCEPT ![n] = "values"]
            /\ UNCHANGED <<threadVars, watchVars, events, hung, value, keys, callback,
                           prevValues>>
    /\ UNCHANGED <<etcdVars, podMap, writes, faults>>

\* If the address is neither cached nor to be read, it goes on with no pods at all.
ResolveFails(n) ==
    /\ handler[n] = "address" /\ n \notin nodeIps
    /\ Fault
    /\ value' = [value EXCEPT ![n] = {}]
    /\ prevKeys' = {}
    /\ applied' = [applied EXCEPT ![n] = Unknown]
    /\ handler' = [handler EXCEPT ![n] = "values"]
    /\ UNCHANGED <<etcdVars, podMap, threadVars, watchVars, events, ipamVars, keys,
                   callback, prevValues, writes>>

\* Two threads inside ipam's accessors unlock the mutex twice, which ends the
\* process, or leave it locked with nobody to unlock it (IpamLock).
Meet(n) ==
    /\ handler[n] = "address" /\ ~ hung
    /\ \/ \E m \in Nodes \ {n} : handler[m] = "address"
       \/ main = "more"
       \/ main = "serve" /\ mapsSeen # <<>>
    /\ \/ Dead
       \/ /\ hung' = TRUE
          /\ UNCHANGED <<threadVars, watchVars, events, nodeIps, handlerVars>>
    /\ UNCHANGED <<etcdVars, podMap, writes, faults>>

\* The address of the node, once for each pod, goes to prevValues.
SetValues(n) ==
    /\ handler[n] = "values"
    /\ prevValues' = [node |-> n, count |-> Cardinality(value[n])]
    /\ value' = [value EXCEPT ![n] = {}]
    /\ handler' = [handler EXCEPT ![n] = "collect"]
    /\ UNCHANGED <<etcdVars, podMap, threadVars, watchVars, events, keys, prevKeys,
                   callback, applied, ipamVars, writes, faults>>

Collect_OnlyNew(n) ==
    /\ handler[n] = "collect"
    /\ keys' = [keys EXCEPT ![n] = Present \cap prevKeys]
    /\ handler' = [handler EXCEPT ![n] = "delete"]
    /\ UNCHANGED <<etcdVars, podMap, threadVars, watchVars, events, value, prevVars,
                   callback, applied, ipamVars, writes, faults>>

\* DeleteAllPodMap iterates over the whole map ...
Collect(n) ==
    /\ handler[n] = "collect"
    /\ keys' = [keys EXCEPT ![n] = Present]
    /\ handler' = [handler EXCEPT ![n] = "delete"]
    /\ UNCHANGED <<etcdVars, podMap, threadVars, watchVars, events, value, prevVars,
                   callback, applied, ipamVars, writes, faults>>

\* ... and deletes the keys it found.  The batch stops at a key that is gone,
\* and the error is logged and ignored.
Delete(n) ==
    /\ handler[n] = "delete"
    /\ \/ /\ keys[n] \subseteq Present
          /\ podMap' = Without(keys[n])
       \/ /\ ~ keys[n] \subseteq Present
          /\ \E gone \in SUBSET (keys[n] \cap Present) : podMap' = Without(gone)
    /\ keys' = [keys EXCEPT ![n] = {}]
    /\ handler' = [handler EXCEPT ![n] = "put"]
    /\ UNCHANGED <<etcdVars, threadVars, watchVars, events, value, prevVars, callback,
                   applied, ipamVars, writes, faults>>

\* Then it puts what the slices hold by now; the library refuses two slices of
\* different lengths, which is logged and ignored as well.
Put(n) ==
    /\ handler[n] = "put"
    /\ \E put \in SUBSET prevKeys :
           /\ IF Cardinality(prevKeys) = prevValues.count
              THEN Batch(prevKeys, put)
              ELSE put = {}
           /\ podMap' = [i \in Pods |-> IF i \in put THEN prevValues.node
                                        ELSE podMap[i]]
           /\ applied' = [applied EXCEPT ![n] = IF put = prevKeys THEN @ ELSE Unknown]
    /\ handler' = [handler EXCEPT ![n] = "idle"]
    /\ UNCHANGED <<etcdVars, threadVars, watchVars, events, value, keys, prevVars,
                   callback, ipamVars, writes, faults>>

\* The daemon is killed; the next ADD starts another one.
Kill ==
    /\ main # "down"
    /\ Fault
    /\ Dead
    /\ UNCHANGED <<etcdVars, podMap, writes>>

Work ==
    \/ FillPodMap \/ ReadMaps \/ WatchMaps \/ MapsEvent \/ MapsDone \/ ReopenMaps
    \/ \E n \in Nodes : ReadRecord(n) \/ WatchRecord(n) \/ Reopen(n)

Handle(n) ==
    TakeEvent(n) \/ Resolve(n) \/ SetValues(n) \/ Collect(n) \/ Delete(n) \/ Put(n)

Next ==
    \/ Begin \/ Work \/ FillFails \/ ReadMapsFails \/ MapsEventFails
    \/ CloseMaps \/ Kill
    \/ \E n \in Nodes :
           Join(n) \/ Close(n) \/ Handle(n) \/ ResolveFails(n) \/ Meet(n)
    \/ \E n \in Nodes, ips \in SUBSET Pods : ips \subseteq IPsOf(n) /\ WriteRecord(n, ips)

Spec == Init /\ [][Next]_vars

\* Threads and goroutines that can run do; an ADD comes and starts the daemon.
FairSpec ==
    /\ Spec
    /\ WF_vars(Begin)
    /\ WF_vars(Work)
    /\ \A n \in Nodes : WF_vars(Handle(n))

----------------------------------------------------------------------------
\* The shape of the state.  A record is never about to be watched a second time,
\* which would apply each of its events twice (watchingMap).
TypeOK ==
    /\ \A n \in Nodes : record[n] \subseteq IPsOf(n)
    /\ maps \subseteq Nodes
    /\ podMap \in [Pods -> Nodes \cup {NoNode}]
    /\ Cardinality(Present) <= MaxEntries
    /\ main \in {"down", "read", "maps", "watch", "serve", "more"}
    /\ boot \subseteq Pods \cup {EmptyIP}
    /\ toRead \subseteq Nodes /\ toWatch \subseteq Nodes
    /\ watched \subseteq Nodes /\ open \subseteq watched
    /\ toWatch \cap watched = {}
    /\ mapsValue \subseteq Nodes
    /\ mapsWatch \in {"none", "open", "closed"}
    /\ handler \in [Nodes -> {"idle", "address", "values", "collect", "delete", "put"}]
    /\ value \in [Nodes -> SUBSET Pods] /\ keys \in [Nodes -> SUBSET Pods]
    /\ callback \in BOOLEAN /\ nodeIps \subseteq Nodes /\ hung \in BOOLEAN
    /\ prevKeys \subseteq Pods
    /\ prevValues.node \in Nodes \cup {NoNode} /\ prevValues.count \in Nat
    /\ applied \in [Nodes -> (SUBSET Pods) \cup {Unknown}]
    /\ faults \in 0..MaxFaults

\* The daemon has nothing left to do for a record.
Settled(n) == events[n] = <<>> /\ handler[n] = "idle"

\* The callback has put the value the record has now, and nothing newer is to come.
Current(n) == applied[n] = record[n] /\ Settled(n)

\* When the callback has put the present record of the only other node that has
\* joined, the pod map holds that node's pods and nothing else: the event after a
\* missed or failed one repairs what it left, and what an earlier daemon left in
\* the pinned map goes away (mapprocessor.go:97-142).
MirrorsOnlyNode ==
    \A n \in Nodes : maps = {n} /\ Current(n) =>
        podMap = [i \in Pods |-> IF i \in record[n] THEN n ELSE NoNode]

\* A maps event makes the daemon watch every node that had joined by then, also one
\* that joined while the watches were being made, or while the watch on the maps
\* key was closed, unless an error has lost the event (watch.go:82-97).
MapsEventCatchesUp ==
    [][MapsDone /\ mapsValue = maps => maps \subseteq watched]_vars

\* Every event of a record is handled, or the daemon dies, or two threads have met
\* in ipam's accessors and left its mutex locked (client.go:296-313).
EventsHandled ==
    \A n \in Nodes : events[n] # <<>> ~> (events[n] = <<>> \/ main = "down" \/ hung)

\* When nodes no longer write, the daemon comes up again after every panic and stays,
\* even if the pods are more than the pod map has room for; unless a node that has
\* joined is left without pods (mapprocessor.go:87-96, net.go:26-38).
WatcherStays ==
    \/ <>[](main \in {"serve", "more"})
    \/ <>[](\E n \in maps : record[n] = {})

\* "Stores the pod ips of the whole cluster" (types.go:35): when the callback has
\* put the present record of every node, the pods of all of them are in the map.
MirrorsCluster ==
    (\A n \in Nodes : Current(n)) => \A n \in Nodes : record[n] \subseteq Present

=============================================================================
