-------------------------- MODULE PodMapSyncProofs --------------------------
(***************************************************************************)
(* Theorems about PodMapSync, for any number of nodes and pods, any room in *)
(* the pod map, and any number of writes and faults.                       *)
(***************************************************************************)
EXTENDS PodMapSync, FiniteSetTheorems, SequenceTheorems, TLAPS

LEMMA NextCases ==
    ASSUME Next
    PROVE  \/ Begin \/ FillPodMap \/ ReadMaps \/ WatchMaps \/ MapsEvent \/ MapsDone
           \/ ReopenMaps \/ FillFails \/ ReadMapsFails \/ MapsEventFails
           \/ CloseMaps \/ Kill
           \/ \E n \in Nodes :
                \/ ReadRecord(n) \/ WatchRecord(n) \/ Reopen(n) \/ Join(n) \/ Close(n)
                \/ TakeEvent(n) \/ Resolve(n) \/ SetValues(n) \/ Collect(n)
                \/ Delete(n) \/ Put(n) \/ ResolveFails(n) \/ Meet(n)
           \/ \E n \in Nodes : \E ips \in SUBSET IPsOf(n) : WriteRecord(n, ips)
  BY DEF Next, Work, Handle

-----------------------------------------------------------------------------
(***************************************************************************)
(* Types                                                                   *)
(***************************************************************************)

TypeInv ==
    /\ TypeOK
    /\ record \in [Nodes -> SUBSET Pods]
    /\ mapsSeen \in Seq(SUBSET Nodes)
    /\ events \in [Nodes -> Seq(SUBSET Pods)]
    /\ writes \in Nat

LEMMA PodsFinite ==
    ASSUME NEW S \in SUBSET Pods
    PROVE  IsFiniteSet(S) /\ Cardinality(S) \in Nat
  BY PodMapSyncAssumption, FS_Subset, FS_CardinalityType

\* A batch never leaves more in the pod map than there is room for.
LEMMA BatchFits ==
    ASSUME TypeOK, NEW ips \in SUBSET Pods, NEW put \in SUBSET ips, Batch(ips, put)
    PROVE  Cardinality(Present \cup put) <= MaxEntries
  BY PodMapSyncAssumption DEF Batch

LEMMA PresentShrinks ==
    ASSUME NEW S \in SUBSET Pods, NEW T \in SUBSET S, Cardinality(S) <= MaxEntries
    PROVE  Cardinality(T) <= MaxEntries
  <1>1. Cardinality(T) <= Cardinality(S)
    BY PodsFinite, FS_Subset
  <1>2. T \in SUBSET Pods
    OBVIOUS
  <1> QED
    BY <1>1, <1>2, PodsFinite, PodMapSyncAssumption

LEMMA DeadType ==
    ASSUME TypeInv, Dead, UNCHANGED <<etcdVars, podMap>>,
           writes' \in Nat, faults' \in 0..MaxFaults
    PROVE  TypeInv'
  <1> USE PodMapSyncAssumption DEF TypeInv, TypeOK, Dead, etcdVars
  <1>1. (Cardinality(Present) <= MaxEntries)'
    BY DEF Present
  <1>2. \A n \in Nodes : record'[n] \subseteq IPsOf(n)'
    BY DEF IPsOf
  <1>3. /\ events' \in [Nodes -> Seq(SUBSET Pods)] /\ mapsSeen' \in Seq(SUBSET Nodes)
        /\ value' \in [Nodes -> SUBSET Pods] /\ keys' \in [Nodes -> SUBSET Pods]
        /\ applied' \in [Nodes -> (SUBSET Pods) \cup {Unknown}]
    BY DEF Nothing, Quiet, Never
  <1>4. /\ handler' \in [Nodes -> {"idle", "address", "values", "collect", "delete", "put"}]
        /\ prevKeys' \subseteq Pods
        /\ prevValues'.node \in Nodes \cup {NoNode} /\ prevValues'.count \in Nat
    BY DEF AllIdle, NoValues
  <1> QED
    BY <1>1, <1>2, <1>3, <1>4

LEMMA TypeInit == Init => TypeInv
  <1> SUFFICES ASSUME Init PROVE TypeInv
    OBVIOUS
  <1>1. Present = {}
    BY DEF Init, Present
  <1>2. Cardinality(Present) <= MaxEntries
    BY <1>1, FS_EmptySet, PodMapSyncAssumption
  <1>3. /\ events \in [Nodes -> Seq(SUBSET Pods)] /\ mapsSeen \in Seq(SUBSET Nodes)
        /\ value \in [Nodes -> SUBSET Pods] /\ keys \in [Nodes -> SUBSET Pods]
        /\ applied \in [Nodes -> (SUBSET Pods) \cup {Unknown}]
        /\ record \in [Nodes -> SUBSET Pods]
    BY DEF Init, Nothing, Quiet, Never
  <1>4. /\ handler \in [Nodes -> {"idle", "address", "values", "collect", "delete", "put"}]
        /\ prevValues.node \in Nodes \cup {NoNode} /\ prevValues.count \in Nat
    BY DEF Init, AllIdle, NoValues
  <1>5. \A n \in Nodes : record[n] \subseteq IPsOf(n)
    BY DEF Init, Nothing
  <1>6. /\ podMap \in [Pods -> Nodes \cup {NoNode}]
        /\ callback \in BOOLEAN /\ hung \in BOOLEAN
        /\ maps = {} /\ boot = {} /\ toRead = {} /\ toWatch = {} /\ watched = {}
        /\ open = {} /\ mapsValue = {} /\ nodeIps = {} /\ prevKeys = {}
        /\ main = "down" /\ mapsWatch = "none" /\ writes = 0
    BY DEF Init
  <1>7. faults \in 0..MaxFaults
    BY PodMapSyncAssumption DEF Init
  <1> QED
    BY <1>2, <1>3, <1>4, <1>5, <1>6, <1>7 DEF TypeInv, TypeOK

LEMMA TypeStep == TypeInv /\ [Next]_vars => TypeInv'
  <1> SUFFICES ASSUME TypeInv, [Next]_vars PROVE TypeInv'
    OBVIOUS
  <1> USE PodMapSyncAssumption
      DEF TypeInv, TypeOK, etcdVars, threadVars, watchVars, prevVars, ipamVars,
          handlerVars, Fault
  <1>u. CASE UNCHANGED vars
    BY <1>u DEF vars, Present
  <1>w. ASSUME NEW n \in Nodes, NEW ips \in SUBSET IPsOf(n), WriteRecord(n, ips)
        PROVE  TypeInv'
    <2>1. ips \in SUBSET Pods
      BY DEF IPsOf
    <2>2. events' \in [Nodes -> Seq(SUBSET Pods)]
      BY <1>w, <2>1 DEF WriteRecord
    <2>3. \A m \in Nodes : record'[m] \subseteq IPsOf(m)
      BY <1>w DEF WriteRecord
    <2> QED
      BY <1>w, <2>1, <2>2, <2>3 DEF WriteRecord, Present
  <1>m. ASSUME \/ Begin \/ FillPodMap \/ ReadMaps \/ WatchMaps
               \/ MapsEvent \/ MapsDone \/ ReopenMaps \/ FillFails
               \/ ReadMapsFails \/ MapsEventFails \/ CloseMaps \/ Kill
        PROVE  TypeInv'
    <2>1. CASE Begin
      BY <2>1 DEF Begin, Present
    <2>2. CASE FillPodMap
      <3>1. CASE EmptyIP \in boot
        BY <2>2, <3>1, DeadType DEF FillPodMap
      <3>2. CASE EmptyIP \notin boot
        <4>1. PICK put \in SUBSET boot :
                /\ Batch(boot, put)
                /\ podMap' = [i \in Pods |-> IF i \in put THEN NodeOf[i] ELSE podMap[i]]
                /\ callback' = (put = boot)
          BY <2>2, <3>2 DEF FillPodMap
        <4>2. boot \in SUBSET Pods
          BY <3>2
        <4>3. Present' = Present \cup put
          BY <4>1, <4>2 DEF Present
        <4>4. Cardinality(Present') <= MaxEntries
          BY <4>1, <4>2, <4>3, BatchFits
        <4>5. /\ nodeIps' = {NodeOf[i] : i \in boot}
              /\ boot' = {} /\ main' = "maps"
              /\ UNCHANGED <<record, maps, toRead, toWatch, mapsSeen, mapsValue,
                             mapsWatch, watched, open, events, hung, handler, value,
                             keys, prevKeys, prevValues, applied, writes, faults>>
          BY <2>2, <3>2 DEF FillPodMap
        <4>6. nodeIps' \subseteq Nodes
          BY <4>2, <4>5
        <4>7. podMap' \in [Pods -> Nodes \cup {NoNode}] /\ callback' \in BOOLEAN
          BY <4>1
        <4> QED
          BY <4>4, <4>5, <4>6, <4>7 DEF IPsOf
      <3> QED
        BY <3>1, <3>2
    <2>3. CASE ReadMaps
      BY <2>3 DEF ReadMaps, ShouldWatch, Present
    <2>4. CASE WatchMaps
      BY <2>4 DEF WatchMaps, Present
    <2>5. CASE MapsEvent
      <3>1. Head(mapsSeen) \in SUBSET Nodes /\ Tail(mapsSeen) \in Seq(SUBSET Nodes)
        BY <2>5, HeadTailProperties DEF MapsEvent
      <3> QED
        BY <2>5, <3>1 DEF MapsEvent, ShouldWatch, Present
    <2>6. CASE MapsDone
      BY <2>6 DEF MapsDone, Present
    <2>7. CASE ReopenMaps
      BY <2>7 DEF ReopenMaps, Present
    <2>8. CASE FillFails
      BY <2>8 DEF FillFails, Present
    <2>9. CASE ReadMapsFails
      BY <2>9 DEF ReadMapsFails, Present
    <2>10. CASE MapsEventFails
      BY <2>10 DEF MapsEventFails, Present
    <2>11. CASE CloseMaps
      BY <2>11 DEF CloseMaps, Present
    <2>12. CASE Kill
      BY <2>12, DeadType DEF Kill
    <2> QED
      BY <1>m, <2>1, <2>2, <2>3, <2>4, <2>5, <2>6, <2>7, <2>8, <2>9, <2>10, <2>11, <2>12
  <1>n. ASSUME NEW n \in Nodes,
               \/ ReadRecord(n) \/ WatchRecord(n) \/ Reopen(n) \/ Join(n)
               \/ Close(n) \/ TakeEvent(n) \/ Resolve(n) \/ SetValues(n)
               \/ Collect(n) \/ Delete(n) \/ Put(n) \/ ResolveFails(n)
               \/ Meet(n)
        PROVE  TypeInv'
    <2>1. CASE ReadRecord(n)
      BY <2>1 DEF ReadRecord, Present
    <2>2. CASE WatchRecord(n)
      BY <2>2 DEF WatchRecord, Present
    <2>3. CASE Reopen(n)
      BY <2>3 DEF Reopen, Present
    <2>4. CASE Join(n)
      <3>1. maps' \in SUBSET Nodes
        BY <2>4 DEF Join
      <3>2. Append(mapsSeen, maps') \in Seq(SUBSET Nodes)
        BY <3>1, AppendProperties
      <3>3. mapsSeen' \in Seq(SUBSET Nodes)
        BY <2>4, <3>2 DEF Join
      <3>4. UNCHANGED <<record, podMap, main, boot, toRead, toWatch, mapsValue, mapsWatch,
                        watchVars, events, ipamVars, handlerVars, writes, faults>>
        BY <2>4 DEF Join
      <3> QED
        BY <3>1, <3>3, <3>4 DEF Present
    <2>5. CASE Close(n)
      BY <2>5 DEF Close, Present
    <2>6. CASE TakeEvent(n)
      <3>1. CASE callback
        <4>1. Head(events[n]) \in SUBSET Pods /\ Tail(events[n]) \in Seq(SUBSET Pods)
          BY <2>6, HeadTailProperties DEF TakeEvent
        <4>2. /\ value' = [value EXCEPT ![n] = Head(events[n])]
              /\ events' = [events EXCEPT ![n] = Tail(@)]
              /\ handler' = [handler EXCEPT ![n] = "address"]
              /\ UNCHANGED <<etcdVars, podMap, threadVars, watchVars, keys, callback,
                             prevVars, applied, ipamVars, writes, faults>>
          BY <2>6, <3>1 DEF TakeEvent
        <4>3. /\ value' \in [Nodes -> SUBSET Pods]
              /\ events' \in [Nodes -> Seq(SUBSET Pods)]
          BY <4>1, <4>2
        <4> QED
          BY <4>2, <4>3 DEF Present
      <3>2. CASE ~ callback
        BY <2>6, <3>2, DeadType DEF TakeEvent
      <3> QED
        BY <3>1, <3>2
    <2>7. CASE Resolve(n)
      <3>1. CASE value[n] = {}
        BY <2>7, <3>1, DeadType DEF Resolve
      <3>2. CASE value[n] # {}
        <4>1. value[n] \in SUBSET Pods
          OBVIOUS
        <4>2. applied' \in [Nodes -> (SUBSET Pods) \cup {Unknown}]
          BY <2>7, <3>2, <4>1 DEF Resolve
        <4>3. /\ nodeIps' = nodeIps \cup {n}
              /\ prevKeys' = value[n]
              /\ handler' = [handler EXCEPT ![n] = "values"]
              /\ UNCHANGED <<etcdVars, podMap, threadVars, watchVars, events, hung,
                             value, keys, callback, prevValues, writes, faults>>
          BY <2>7, <3>2 DEF Resolve
        <4>4. handler' \in [Nodes -> {"idle", "address", "values", "collect", "delete",
                                      "put"}]
          BY <4>3
        <4> QED
          BY <4>1, <4>2, <4>3, <4>4 DEF Present
      <3> QED
        BY <3>1, <3>2
    <2>8. CASE SetValues(n)
      <3>1. Cardinality(value[n]) \in Nat
        BY PodsFinite
      <3> QED
        BY <2>8, <3>1 DEF SetValues, Present
    <2>9. CASE Collect(n)
      BY <2>9 DEF Collect, Present
    <2>10. CASE Delete(n)
      <3>1. PICK gone \in SUBSET Present : podMap' = Without(gone)
        BY <2>10 DEF Delete
      <3>2. Present' = Present \ gone
        BY <3>1 DEF Present, Without
      <3>3. Cardinality(Present') <= MaxEntries
        BY <3>2, PresentShrinks DEF Present
      <3>4. podMap' \in [Pods -> Nodes \cup {NoNode}]
        BY <3>1 DEF Without
      <3> QED
        BY <2>10, <3>3, <3>4 DEF Delete
    <2>11. CASE Put(n)
      <3>1. PICK put \in SUBSET prevKeys :
              /\ IF Cardinality(prevKeys) = prevValues.count
                 THEN Batch(prevKeys, put)
                 ELSE put = {}
              /\ podMap' = [i \in Pods |-> IF i \in put THEN prevValues.node
                                           ELSE podMap[i]]
              /\ applied' = [applied EXCEPT ![n] = IF put = prevKeys THEN @ ELSE Unknown]
        BY <2>11 DEF Put
      <3>2. Cardinality(Present \cup put) <= MaxEntries
        BY <3>1, BatchFits
      <3>3. Present' \in SUBSET (Present \cup put) /\ Present \cup put \in SUBSET Pods
        BY <3>1 DEF Present
      <3>4. Cardinality(Present') <= MaxEntries
        BY <3>2, <3>3, PresentShrinks
      <3>5. podMap' \in [Pods -> Nodes \cup {NoNode}]
        BY <3>1
      <3>6. applied' \in [Nodes -> (SUBSET Pods) \cup {Unknown}]
        BY <3>1
      <3> QED
        BY <2>11, <3>4, <3>5, <3>6 DEF Put
    <2>12. CASE ResolveFails(n)
      BY <2>12 DEF ResolveFails, Present
    <2>13. CASE Meet(n)
      <3>1. CASE Dead
        BY <2>13, <3>1, DeadType DEF Meet
      <3>2. CASE ~ Dead
        <4>1. /\ hung' = TRUE
              /\ UNCHANGED <<etcdVars, podMap, threadVars, watchVars, events, nodeIps,
                             handlerVars, writes, faults>>
          BY <2>13, <3>2 DEF Meet
        <4> QED
          BY <4>1 DEF Present
      <3> QED
        BY <3>1, <3>2
    <2> QED
      BY <1>n, <2>1, <2>2, <2>3, <2>4, <2>5, <2>6, <2>7, <2>8, <2>9, <2>10, <2>11, <2>12,
         <2>13
  <1> QED
    BY <1>u, <1>w, <1>m, <1>n, NextCases

LEMMA TypeAlways == Spec => []TypeInv
  BY TypeInit, TypeStep, PTL DEF Spec

\* Every variable keeps its type, the pod map its size, and no record is about to be
\* watched a second time.
THEOREM TypeCorrect == Spec => []TypeOK
  <1>1. TypeInv => TypeOK
    BY DEF TypeInv
  <1> QED
    BY <1>1, TypeAlways, PTL

-----------------------------------------------------------------------------
(***************************************************************************)
(* Which records are watched                                               *)
(***************************************************************************)

\* While its callback runs, each node of the maps event is watched or about to be.
EventCovered == main = "more" => mapsValue \subseteq watched \cup toWatch

LEMMA CoveredStep == EventCovered /\ [Next]_vars => EventCovered'
  <1> SUFFICES ASSUME EventCovered, [Next]_vars PROVE EventCovered'
    OBVIOUS
  <1> USE DEF EventCovered, etcdVars, threadVars, watchVars, Dead
  <1>u. CASE UNCHANGED vars
    BY <1>u DEF vars
  <1>w. ASSUME NEW n \in Nodes, NEW ips, WriteRecord(n, ips)
        PROVE  EventCovered'
    BY <1>w DEF WriteRecord
  <1>m. ASSUME \/ Begin \/ FillPodMap \/ ReadMaps \/ WatchMaps
               \/ MapsEvent \/ MapsDone \/ ReopenMaps \/ FillFails
               \/ ReadMapsFails \/ MapsEventFails \/ CloseMaps \/ Kill
        PROVE  EventCovered'
    BY <1>m DEF Begin, FillPodMap, ReadMaps, WatchMaps, MapsEvent, MapsDone, ReopenMaps,
                FillFails, ReadMapsFails, MapsEventFails, CloseMaps, Kill, ShouldWatch
  <1>n. ASSUME NEW n \in Nodes,
               \/ ReadRecord(n) \/ WatchRecord(n) \/ Reopen(n) \/ Join(n)
               \/ Close(n) \/ TakeEvent(n) \/ Resolve(n) \/ SetValues(n)
               \/ Collect(n) \/ Delete(n) \/ Put(n) \/ ResolveFails(n)
               \/ Meet(n)
        PROVE  EventCovered'
    BY <1>n DEF ReadRecord, WatchRecord, Reopen, Join, Close, TakeEvent, Resolve,
                SetValues, Collect, Delete, Put, ResolveFails, Meet
  <1> QED
    BY <1>u, <1>w, <1>m, <1>n, NextCases

\* A maps event makes the daemon watch every node that had joined by then, unless
\* an error has lost the event (watch.go:82-97).
THEOREM MapsEventAlwaysCatchesUp == Spec => MapsEventCatchesUp
  <1>1. Init => EventCovered
    BY DEF Init, EventCovered
  <1>2. EventCovered => (MapsDone /\ mapsValue = maps => maps \subseteq watched)
    BY DEF EventCovered, MapsDone
  <1>3. EventCovered /\ [Next]_vars =>
            [MapsDone /\ mapsValue = maps => maps \subseteq watched]_vars
    BY <1>2
  <1> QED
    BY <1>1, <1>3, CoveredStep, PTL DEF Spec, MapsEventCatchesUp

-----------------------------------------------------------------------------
(***************************************************************************)
(* What the pod map holds as long as one other node has joined             *)
(***************************************************************************)

Mirror(n, ips) == [i \in Pods |-> IF i \in ips THEN n ELSE NoNode]

\* Before the daemon has watched anything, none of its goroutines has run.
AsleepAtFirst == main \in {"down", "read"} =>
    /\ watched = {}
    /\ \A n \in Nodes : events[n] = <<>> /\ handler[n] = "idle" /\ applied[n] = Unknown

\* A daemon does nothing for a node that has not joined.
OutOfSight ==
    /\ toRead \cup toWatch \cup watched \cup mapsValue \subseteq maps
    /\ \A k \in 1..Len(mapsSeen) : mapsSeen[k] \subseteq maps
    /\ \A n \in Nodes \ maps :
           events[n] = <<>> /\ handler[n] = "idle" /\ applied[n] = Unknown

\* What the callback of n has done by each of its steps when no other one runs: the
\* slices are its own, and nothing it has collected or deleted comes back.
Undisturbed(n) ==
    /\ handler[n] = "idle" => applied[n] = Unknown \/ podMap = Mirror(n, applied[n])
    /\ handler[n] \in {"values", "collect", "delete", "put"} =>
           applied[n] \in {Unknown, prevKeys}
    /\ handler[n] \in {"collect", "delete", "put"} => prevValues.node = n
    /\ handler[n] = "delete" => keys[n] = Present
    /\ handler[n] = "put" => Present = {}

SoloInv ==
    /\ TypeInv
    /\ AsleepAtFirst
    /\ OutOfSight
    /\ \A n \in Nodes : maps \subseteq {n} => Undisturbed(n)

LEMMA SoloInit == Init => SoloInv
  <1> SUFFICES ASSUME Init PROVE SoloInv
    OBVIOUS
  <1>1. \A n \in Nodes : events[n] = <<>> /\ handler[n] = "idle" /\ applied[n] = Unknown
    BY DEF Init, Quiet, AllIdle, Never
  <1>2. OutOfSight
    BY <1>1 DEF Init, OutOfSight
  <1> QED
    BY <1>1, <1>2, TypeInit DEF Init, SoloInv, AsleepAtFirst, Undisturbed

\* Taking an event off a queue leaves the ones that were in it.
LEMMA TakenFromQueue ==
    ASSUME NEW q \in Seq(SUBSET Nodes), q # <<>>, NEW S \in SUBSET Nodes,
           \A k \in 1..Len(q) : q[k] \subseteq S
    PROVE  Head(q) \subseteq S /\ \A k \in 1..Len(Tail(q)) : Tail(q)[k] \subseteq S
  <1>1. /\ Len(q) \in Nat /\ Len(q) >= 1 /\ Len(Tail(q)) = Len(q) - 1
        /\ Head(q) = q[1] /\ \A k \in 1..Len(Tail(q)) : Tail(q)[k] = q[k + 1]
    BY HeadTailProperties
  <1>2. \A k \in 1..Len(Tail(q)) : k + 1 \in 1..Len(q)
    BY <1>1
  <1>3. 1 \in 1..Len(q)
    BY <1>1
  <1> QED
    BY <1>1, <1>2, <1>3

LEMMA DeadQuiet ==
    ASSUME Dead
    PROVE  \A n \in Nodes :
               events'[n] = <<>> /\ handler'[n] = "idle" /\ applied'[n] = Unknown
  BY DEF Dead, Quiet, AllIdle, Never

LEMMA DeadOutOfSight ==
    ASSUME Dead, UNCHANGED maps
    PROVE  AsleepAtFirst' /\ OutOfSight'
  <1>1. AsleepAtFirst'
    BY DeadQuiet DEF AsleepAtFirst, Dead
  <1>2. mapsSeen' = <<>> /\ 1..Len(mapsSeen') = {}
    BY DEF Dead
  <1>3. OutOfSight'
    BY <1>2, DeadQuiet DEF OutOfSight, Dead
  <1> QED
    BY <1>1, <1>3

LEMMA OutOfSightStep ==
    ASSUME TypeInv, AsleepAtFirst, OutOfSight, [Next]_vars
    PROVE  AsleepAtFirst' /\ OutOfSight'
  <1>t. /\ open \subseteq watched /\ mapsSeen \in Seq(SUBSET Nodes) /\ maps \subseteq Nodes
        /\ events \in [Nodes -> Seq(SUBSET Pods)]
        /\ handler \in [Nodes -> {"idle", "address", "values", "collect", "delete", "put"}]
        /\ applied \in [Nodes -> (SUBSET Pods) \cup {Unknown}]
    BY DEF TypeInv, TypeOK
  <1> USE DEF AsleepAtFirst, OutOfSight, etcdVars, threadVars, watchVars, prevVars,
              ipamVars, handlerVars
  <1>u. CASE UNCHANGED vars
    BY <1>u DEF vars
  <1>w. ASSUME NEW n \in Nodes, NEW ips, WriteRecord(n, ips)
        PROVE  AsleepAtFirst' /\ OutOfSight'
    BY <1>w, <1>t DEF WriteRecord
  <1>m. ASSUME \/ Begin \/ FillPodMap \/ ReadMaps \/ WatchMaps
               \/ MapsEvent \/ MapsDone \/ ReopenMaps \/ FillFails
               \/ ReadMapsFails \/ MapsEventFails \/ CloseMaps \/ Kill
        PROVE  AsleepAtFirst' /\ OutOfSight'
    <2>1. CASE Begin
      BY <2>1 DEF Begin
    <2>2. CASE FillPodMap
      <3>1. CASE EmptyIP \in boot
        BY <2>2, <3>1, DeadOutOfSight DEF FillPodMap
      <3>2. CASE EmptyIP \notin boot
        BY <2>2, <3>2 DEF FillPodMap
      <3> QED
        BY <3>1, <3>2
    <2>3. CASE ReadMaps
      BY <2>3 DEF ReadMaps, ShouldWatch
    <2>4. CASE WatchMaps
      BY <2>4 DEF WatchMaps
    <2>5. CASE MapsEvent
      <3>1. /\ Head(mapsSeen) \subseteq maps
            /\ \A k \in 1..Len(Tail(mapsSeen)) : Tail(mapsSeen)[k] \subseteq maps
        BY <2>5, <1>t, TakenFromQueue DEF MapsEvent, OutOfSight
      <3> QED
        BY <2>5, <3>1 DEF MapsEvent, ShouldWatch
    <2>6. CASE MapsDone
      BY <2>6 DEF MapsDone
    <2>7. CASE ReopenMaps
      BY <2>7 DEF ReopenMaps
    <2>8. CASE FillFails
      BY <2>8 DEF FillFails
    <2>9. CASE ReadMapsFails
      BY <2>9 DEF ReadMapsFails
    <2>10. CASE MapsEventFails
      <3>1. \A k \in 1..Len(Tail(mapsSeen)) : Tail(mapsSeen)[k] \subseteq maps
        BY <2>10, <1>t, TakenFromQueue DEF MapsEventFails, OutOfSight
      <3> QED
        BY <2>10, <3>1 DEF MapsEventFails
    <2>11. CASE CloseMaps
      BY <2>11 DEF CloseMaps
    <2>12. CASE Kill
      BY <2>12, DeadOutOfSight DEF Kill
    <2> QED
      BY <1>m, <2>1, <2>2, <2>3, <2>4, <2>5, <2>6, <2>7, <2>8, <2>9, <2>10, <2>11, <2>12
  <1>n. ASSUME NEW n \in Nodes,
               \/ ReadRecord(n) \/ WatchRecord(n) \/ Reopen(n) \/ Join(n)
               \/ Close(n) \/ TakeEvent(n) \/ Resolve(n) \/ SetValues(n)
               \/ Collect(n) \/ Delete(n) \/ Put(n) \/ ResolveFails(n)
               \/ Meet(n)
        PROVE  AsleepAtFirst' /\ OutOfSight'
    <2>1. CASE ReadRecord(n)
      BY <2>1 DEF ReadRecord
    <2>2. CASE WatchRecord(n)
      BY <2>2 DEF WatchRecord
    <2>3. CASE Reopen(n)
      BY <2>3 DEF Reopen
    <2>4. CASE Join(n)
      <3>1. maps' = maps \cup {n} /\ maps' \in SUBSET Nodes
        BY <2>4, <1>t DEF Join
      <3>2. \A k \in 1..Len(mapsSeen') : mapsSeen'[k] \subseteq maps'
        <4>1. CASE mapsWatch = "open"
          <5>1. mapsSeen' = Append(mapsSeen, maps')
            BY <2>4, <4>1 DEF Join
          <5> QED
            BY <5>1, <3>1, <1>t, AppendProperties
        <4>2. CASE mapsWatch # "open"
          BY <2>4, <3>1, <4>2 DEF Join
        <4> QED
          BY <4>1, <4>2
      <3> QED
        BY <2>4, <3>1, <3>2 DEF Join
    <2>5. CASE Close(n)
      BY <2>5, <1>t DEF Close
    <2>6. CASE TakeEvent(n)
      <3>1. CASE callback
        BY <2>6, <3>1, <1>t DEF TakeEvent
      <3>2. CASE ~ callback
        BY <2>6, <3>2, DeadOutOfSight DEF TakeEvent
      <3> QED
        BY <3>1, <3>2
    <2>7. CASE Resolve(n)
      <3>1. CASE value[n] = {}
        BY <2>7, <3>1, DeadOutOfSight DEF Resolve
      <3>2. CASE value[n] # {}
        BY <2>7, <3>2, <1>t DEF Resolve
      <3> QED
        BY <3>1, <3>2
    <2>8. CASE SetValues(n)
      BY <2>8, <1>t DEF SetValues
    <2>9. CASE Collect(n)
      BY <2>9, <1>t DEF Collect
    <2>10. CASE Delete(n)
      BY <2>10, <1>t DEF Delete
    <2>11. CASE Put(n)
      BY <2>11, <1>t DEF Put
    <2>12. CASE ResolveFails(n)
      BY <2>12, <1>t DEF ResolveFails
    <2>13. CASE Meet(n)
      <3>1. CASE Dead
        BY <2>13, <3>1, DeadOutOfSight DEF Meet
      <3>2. CASE ~ Dead
        BY <2>13, <3>2 DEF Meet
      <3> QED
        BY <3>1, <3>2
    <2> QED
      BY <1>n, <2>1, <2>2, <2>3, <2>4, <2>5, <2>6, <2>7, <2>8, <2>9, <2>10, <2>11, <2>12,
         <2>13
  <1> QED
    BY <1>u, <1>w, <1>m, <1>n, NextCases

LEMMA UndisturbedStays ==
    ASSUME NEW n \in Nodes, Undisturbed(n),
           UNCHANGED <<podMap, handler, keys, prevVars, applied>>
    PROVE  Undisturbed(n)'
  BY DEF Undisturbed, prevVars, Mirror, Present

LEMMA DeadUndisturbed ==
    ASSUME NEW n \in Nodes, Dead
    PROVE  Undisturbed(n)'
  BY DeadQuiet DEF Undisturbed

\* Only the goroutine of n itself moves on, and it does what it should.
LEMMA UndisturbedStep ==
    ASSUME SoloInv, [Next]_vars, NEW n \in Nodes, maps' \subseteq {n}
    PROVE  Undisturbed(n)'
  <1>t. /\ podMap \in [Pods -> Nodes \cup {NoNode}]
        /\ handler \in [Nodes -> {"idle", "address", "values", "collect", "delete", "put"}]
        /\ applied \in [Nodes -> (SUBSET Pods) \cup {Unknown}]
        /\ prevKeys \subseteq Pods /\ keys \in [Nodes -> SUBSET Pods]
        /\ value \in [Nodes -> SUBSET Pods]
        /\ NoNode \notin Nodes
    BY PodMapSyncAssumption DEF SoloInv, TypeInv, TypeOK
  <1> USE DEF etcdVars, threadVars, watchVars, prevVars, ipamVars, handlerVars
  <1>s. ASSUME maps \subseteq maps'
        PROVE  /\ Undisturbed(n)
               /\ \A m \in Nodes \ {n} : events[m] = <<>> /\ handler[m] = "idle"
    BY <1>s DEF SoloInv, OutOfSight
  <1>u. CASE UNCHANGED vars
    BY <1>u, <1>s, UndisturbedStays DEF vars
  <1>w. ASSUME NEW m \in Nodes, NEW ips, WriteRecord(m, ips)
        PROVE  Undisturbed(n)'
    BY <1>w, <1>s, UndisturbedStays DEF WriteRecord
  <1>m. ASSUME \/ Begin \/ FillPodMap \/ ReadMaps \/ WatchMaps
               \/ MapsEvent \/ MapsDone \/ ReopenMaps \/ FillFails
               \/ ReadMapsFails \/ MapsEventFails \/ CloseMaps \/ Kill
        PROVE  Undisturbed(n)'
    <2>1. CASE FillPodMap
      <3>1. CASE EmptyIP \in boot
        BY <2>1, <3>1, DeadUndisturbed DEF FillPodMap
      <3>2. CASE EmptyIP \notin boot
        <4>1. handler'[n] = "idle" /\ applied'[n] = Unknown
          BY <2>1, <3>2 DEF FillPodMap, SoloInv, AsleepAtFirst
        <4> QED
          BY <4>1 DEF Undisturbed
      <3> QED
        BY <3>1, <3>2
    <2>2. CASE Kill
      BY <2>2, DeadUndisturbed DEF Kill
    <2>3. CASE ~ FillPodMap /\ ~ Kill
      BY <1>m, <2>3, <1>s, UndisturbedStays
         DEF Begin, ReadMaps, WatchMaps, MapsEvent, MapsDone, ReopenMaps, FillFails,
             ReadMapsFails, MapsEventFails, CloseMaps
    <2> QED
      BY <2>1, <2>2, <2>3
  <1>o. ASSUME NEW m \in Nodes,
               ReadRecord(m) \/ WatchRecord(m) \/ Reopen(m) \/ Join(m) \/ Close(m)
        PROVE  Undisturbed(n)'
    BY <1>o, <1>s, UndisturbedStays DEF ReadRecord, WatchRecord, Reopen, Join, Close
  <1>n. ASSUME NEW m \in Nodes,
               \/ TakeEvent(m) \/ Resolve(m) \/ SetValues(m) \/ Collect(m)
               \/ Delete(m) \/ Put(m) \/ ResolveFails(m) \/ Meet(m)
        PROVE  Undisturbed(n)'
    <2>1. maps' = maps
      BY <1>n DEF TakeEvent, Resolve, SetValues, Collect, Delete, Put, ResolveFails, Meet
    <2>2. m = n
      BY <1>n, <1>s, <2>1 DEF TakeEvent, Resolve, SetValues, Collect, Delete, Put,
                              ResolveFails, Meet
    <2>3. Undisturbed(n)
      BY <1>s, <2>1
    <2>4. CASE TakeEvent(n)
      <3>1. CASE callback
        BY <2>4, <3>1, <1>t DEF TakeEvent, Undisturbed
      <3>2. CASE ~ callback
        BY <2>4, <3>2, DeadUndisturbed DEF TakeEvent
      <3> QED
        BY <3>1, <3>2
    <2>5. CASE Resolve(n)
      <3>1. CASE value[n] = {}
        BY <2>5, <3>1, DeadUndisturbed DEF Resolve
      <3>2. CASE value[n] # {}
        BY <2>5, <3>2, <1>t DEF Resolve, Undisturbed
      <3> QED
        BY <3>1, <3>2
    <2>6. CASE SetValues(n)
      BY <2>6, <2>3, <1>t DEF SetValues, Undisturbed
    <2>7. CASE Collect(n)
      BY <2>7, <2>3, <1>t DEF Collect, Undisturbed, Present
    <2>8. CASE Delete(n)
      <3>1. podMap' = Without(Present)
        BY <2>8, <2>3 DEF Delete, Undisturbed
      <3>2. Present' = {}
        BY <3>1 DEF Present, Without
      <3> QED
        BY <2>8, <2>3, <3>2, <1>t DEF Delete, Undisturbed
    <2>9. CASE Put(n)
      <3>1. PICK put \in SUBSET prevKeys :
              /\ put # {} => prevKeys # {}
              /\ podMap' = [i \in Pods |-> IF i \in put THEN prevValues.node
                                           ELSE podMap[i]]
              /\ applied' = [applied EXCEPT ![n] = IF put = prevKeys THEN @ ELSE Unknown]
        BY <2>9 DEF Put
      <3>2. \A i \in Pods : podMap[i] = NoNode
        BY <2>9, <2>3 DEF Put, Undisturbed, Present
      <3>3. prevValues.node = n /\ applied[n] \in {Unknown, prevKeys}
        BY <2>9, <2>3 DEF Put, Undisturbed
      <3>4. podMap' = Mirror(n, put)
        BY <3>1, <3>2, <3>3 DEF Mirror
      <3>5. applied'[n] \in {Unknown, put}
        BY <3>1, <3>3, <1>t
      <3>6. handler'[n] = "idle"
        BY <2>9, <1>t DEF Put
      <3> QED
        BY <3>4, <3>5, <3>6 DEF Undisturbed, Mirror
    <2>10. CASE ResolveFails(n)
      BY <2>10, <1>t DEF ResolveFails, Undisturbed
    <2>11. CASE Meet(n)
      <3>1. CASE Dead
        BY <3>1, DeadUndisturbed
      <3>2. CASE ~ Dead
        BY <2>11, <3>2, <2>3, UndisturbedStays DEF Meet
      <3> QED
        BY <3>1, <3>2
    <2> QED
      BY <1>n, <2>2, <2>4, <2>5, <2>6, <2>7, <2>8, <2>9, <2>10, <2>11
  <1> QED
    BY <1>u, <1>w, <1>m, <1>o, <1>n, NextCases

LEMMA SoloAlways == Spec => []SoloInv
  <1>1. SoloInv /\ [Next]_vars => SoloInv'
    <2> SUFFICES ASSUME SoloInv, [Next]_vars PROVE SoloInv'
      OBVIOUS
    <2>1. TypeInv'
      BY TypeStep DEF SoloInv
    <2>2. AsleepAtFirst' /\ OutOfSight'
      BY OutOfSightStep DEF SoloInv
    <2>3. \A n \in Nodes : maps' \subseteq {n} => Undisturbed(n)'
      BY UndisturbedStep
    <2> QED
      BY <2>1, <2>2, <2>3 DEF SoloInv
  <1> QED
    BY SoloInit, <1>1, PTL DEF Spec

\* When the callback has put the present record of the only other node that has
\* joined, the pod map holds that node's pods and nothing else (mapprocessor.go:97-142).
THEOREM MirrorsOnlyNodeAlways == Spec => []MirrorsOnlyNode
  <1>1. ASSUME SoloInv, NEW n \in Nodes, maps = {n}, Current(n)
        PROVE  podMap = [i \in Pods |-> IF i \in record[n] THEN n ELSE NoNode]
    <2>1. record[n] # Unknown
      <3>1. NoNode \notin record[n]
        BY <1>1, PodMapSyncAssumption DEF SoloInv, TypeInv
      <3>2. NoNode \in Unknown
        BY DEF Unknown
      <3> QED
        BY <3>1, <3>2
    <2>2. podMap = Mirror(n, record[n])
      BY <1>1, <2>1 DEF SoloInv, Undisturbed, Current, Settled
    <2> QED
      BY <2>2 DEF Mirror
  <1>2. SoloInv => MirrorsOnlyNode
    BY <1>1 DEF MirrorsOnlyNode
  <1> QED
    BY <1>2, SoloAlways, PTL

=============================================================================
