-------------------------- MODULE ClusterPlanProofs --------------------------
(***************************************************************************)
(* Theorems about SubnetPool, ClusterPlan and AddressPlan.                 *)
(*                                                                         *)
(* First about SubnetPool, for any number of processes, nodes and networks, *)
(* any bound on failures, and the overlap each theorem states: who gets    *)
(* which network.  Then about the addresses in these networks, for octets  *)
(* of any number of values and any cluster: no address is on offer at two  *)
(* nodes, and a range lists exactly the addresses from its start to its    *)
(* end.                                                                    *)
(***************************************************************************)
EXTENDS ClusterPlan, FiniteSetTheorems, TLAPS

\* One operator for the moves of Next, so that a proof has one case an action.
LEMMA NextCases ==
    ASSUME NEW p \in Procs, Start(p) \/ Step(p) \/ Fail(p)
    PROVE  \/ Start(p) \/ PoolGet(p) \/ PoolFill(p) \/ NetGet(p) \/ Take(p)
           \/ PoolSet(p) \/ HostSet(p) \/ RangeSet(p) \/ MapGet(p)
           \/ MapSet(p) \/ Fail(p)
  BY DEF Step

LEMMA NoMapsType == NoMaps \in [MaybeNet -> Hosts \cup {NoHost}]
  BY DEF NoMaps

-----------------------------------------------------------------------------
LEMMA InitType == Init => TypeOK
  <1> SUFFICES ASSUME Init PROVE TypeOK
    OBVIOUS
  <1> USE SubnetPoolAssumption, NoMapsType DEF Init, TypeOK, MaybeNet, Resting
  <1>1. pc \in [Procs -> Resting \cup Steps]
    OBVIOUS
  <1>2. mapsSeen \in [Procs -> [MaybeNet -> Hosts \cup {NoHost}]]
    OBVIOUS
  <1>3. QED
    BY <1>1, <1>2

LEMMA StepType == TypeOK /\ [Next]_vars => TypeOK'
  <1> SUFFICES ASSUME TypeOK, [Next]_vars PROVE TypeOK'
    OBVIOUS
  <1> USE SubnetPoolAssumption, NoMapsType
      DEF TypeOK, etcdVars, Goto, Resting, Steps
  <1>u. CASE UNCHANGED vars
    BY <1>u DEF vars
  <1>n. CASE Next
    <2> SUFFICES ASSUME NEW p \in Procs, Start(p) \/ Step(p) \/ Fail(p)
                 PROVE  TypeOK'
      BY <1>n DEF Next
    <2>1. CASE Start(p)
      BY <2>1 DEF Start, MaybeNet
    <2>2. CASE PoolGet(p)
      BY <2>2 DEF PoolGet
    <2>3. CASE PoolFill(p)
      BY <2>3 DEF PoolFill
    <2>4. CASE NetGet(p)
      <3>1. hostNet[HostOf[p]] \in MaybeNet
        OBVIOUS
      <3>2. net' \in [Procs -> MaybeNet]
        BY <2>4, <3>1 DEF NetGet
      <3>3. pc' \in [Procs -> Resting \cup Steps]
        BY <2>4 DEF NetGet
      <3> QED
        BY <2>4, <3>2, <3>3 DEF NetGet
    <2>5. CASE Take(p)
      BY <2>5 DEF Take, Pick, MaybeNet
    <2>6. CASE PoolSet(p)
      BY <2>6 DEF PoolSet
    <2>7. CASE HostSet(p)
      BY <2>7 DEF HostSet
    <2>8. CASE RangeSet(p)
      BY <2>8 DEF RangeSet
    <2>9. CASE MapGet(p)
      BY <2>9 DEF MapGet
    <2>10. CASE MapSet(p)
      BY <2>10 DEF MapSet
    <2>11. CASE Fail(p)
      BY <2>11 DEF Fail, MaybeNet
    <2> QED
      BY <2>1, <2>2, <2>3, <2>4, <2>5, <2>6, <2>7, <2>8, <2>9, <2>10, <2>11,
         NextCases
  <1> QED
    BY <1>u, <1>n

\* Every variable keeps its type, whatever overlaps and whatever fails.
THEOREM TypeCorrect == Spec => []TypeOK
  BY InitType, StepType, PTL DEF Spec

-----------------------------------------------------------------------------
(***************************************************************************)
(* A node keeps its network when no two initialisations overlap on it.     *)
(***************************************************************************)

\* Overlap never lets two processes of one node initialise together.
OnePerNode ==
    \A p, q \in Procs : <<p, q>> \in Overlap => HostOf[p] # HostOf[q]

\* Two initialisations under way are on different nodes.
NodeExclusive ==
    \A p, q \in Procs : p # q /\ Busy(p) /\ Busy(q) => HostOf[p] # HostOf[q]

\* Between deciding to take a network and writing it, the node has none.
Undecided == \A p \in Procs :
    pc[p] \in {"take", "setPool", "setHost"} => hostNet[HostOf[p]] = NoNet

StableInv == TypeOK /\ NodeExclusive /\ Undecided

LEMMA StableInit == Init => StableInv
  <1> SUFFICES ASSUME Init PROVE NodeExclusive /\ Undecided
    BY InitType DEF StableInv
  <1> QED
    BY DEF Init, NodeExclusive, Undecided, Busy, Resting

LEMMA StableStep ==
    ASSUME OnePerNode
    PROVE  StableInv /\ [Next]_vars => StableInv'
  <1> SUFFICES ASSUME StableInv, [Next]_vars PROVE StableInv'
    OBVIOUS
  <1>t. TypeOK'
    BY StepType DEF StableInv
  <1>u. CASE UNCHANGED vars
    BY <1>t, <1>u DEF vars, StableInv, NodeExclusive, Undecided, Busy, Resting
  <1>n. CASE Next
    <2> PICK p \in Procs : Start(p) \/ Step(p) \/ Fail(p)
      BY <1>n DEF Next
    <2> USE SubnetPoolAssumption
        DEF StableInv, TypeOK, NodeExclusive, Undecided, Busy, Goto, etcdVars,
            Resting
    <2>1. CASE Start(p)
      <3>1. NodeExclusive'
        <4> SUFFICES ASSUME NEW q \in Procs, NEW r \in Procs, q # r,
                            Busy(q)', Busy(r)'
                     PROVE  HostOf[q] # HostOf[r]
          OBVIOUS
        <4>1. CASE q # p /\ r # p
          BY <2>1, <4>1 DEF Start
        <4>2. CASE q = p
          BY <2>1, <4>2, OnePerNode DEF Start, OnePerNode
        <4>3. CASE r = p
          BY <2>1, <4>3, OnePerNode DEF Start, OnePerNode
        <4> QED
          BY <4>1, <4>2, <4>3
      <3>2. Undecided'
        BY <2>1 DEF Start
      <3> QED
        BY <1>t, <3>1, <3>2
    <2>2. CASE PoolGet(p)
      BY <1>t, <2>2 DEF PoolGet
    <2>3. CASE PoolFill(p)
      BY <1>t, <2>3 DEF PoolFill
    <2>4. CASE NetGet(p)
      <3>1. NodeExclusive'
        BY <2>4 DEF NetGet
      <3>2. Undecided'
        BY <2>4 DEF NetGet
      <3> QED
        BY <1>t, <3>1, <3>2
    <2>5. CASE Take(p)
      BY <1>t, <2>5 DEF Take, Pick
    <2>6. CASE PoolSet(p)
      BY <1>t, <2>6 DEF PoolSet
    <2>7. CASE HostSet(p)
      <3>1. NodeExclusive'
        BY <2>7 DEF HostSet
      <3>2. Undecided'
        <4> SUFFICES ASSUME NEW q \in Procs,
                            pc'[q] \in {"take", "setPool", "setHost"}
                     PROVE  hostNet'[HostOf[q]] = NoNet
          OBVIOUS
        <4>1. q # p /\ pc[q] = pc'[q]
          BY <2>7 DEF HostSet
        <4>2. HostOf[q] # HostOf[p]
          BY <2>7, <4>1 DEF HostSet
        <4> QED
          BY <2>7, <4>1, <4>2 DEF HostSet
      <3> QED
        BY <1>t, <3>1, <3>2
    <2>8. CASE RangeSet(p)
      BY <1>t, <2>8 DEF RangeSet
    <2>9. CASE MapGet(p)
      <3>1. pc[p] = "map" /\ hostNet' = hostNet
        BY <2>9 DEF MapGet
      <3>2. \A q \in Procs : q # p => pc'[q] = pc[q]
        BY <2>9 DEF MapGet
      <3>3. pc'[p] \in {"served", "setMap"}
        BY <2>9 DEF MapGet
      <3>4. NodeExclusive'
        BY <3>1, <3>2
      <3>5. Undecided'
        BY <3>1, <3>2, <3>3
      <3> QED
        BY <1>t, <3>4, <3>5
    <2>10. CASE MapSet(p)
      BY <1>t, <2>10 DEF MapSet
    <2>11. CASE Fail(p)
      BY <1>t, <2>11 DEF Fail
    <2> QED
      BY <2>1, <2>2, <2>3, <2>4, <2>5, <2>6, <2>7, <2>8, <2>9, <2>10, <2>11,
         NextCases
  <1> QED
    BY <1>u, <1>n

\* Only HostSet writes a node's key, and then the node had no network.
LEMMA StableAction ==
    ASSUME StableInv, [Next]_vars,
           NEW h \in Hosts, hostNet[h] # NoNet
    PROVE  hostNet'[h] = hostNet[h]
  <1>u. CASE UNCHANGED vars
    BY <1>u DEF vars
  <1>n. CASE Next
    <2> PICK p \in Procs : Start(p) \/ Step(p) \/ Fail(p)
      BY <1>n DEF Next
    <2>1. CASE HostSet(p)
      BY <2>1, SubnetPoolAssumption DEF HostSet, StableInv, Undecided, TypeOK
    <2>2. CASE ~HostSet(p)
      BY <2>2, NextCases
         DEF Start, PoolGet, PoolFill, NetGet, Take, PoolSet, RangeSet, MapGet,
             MapSet, Fail, etcdVars
    <2> QED
      BY <2>1, <2>2
  <1> QED
    BY <1>u, <1>n

\* A node that has a network keeps it for ever, however initialisations on
\* different nodes interleave and wherever one of them dies: the check in
\* networkInit (ipam.go:325) is enough as long as one node does not race itself.
THEOREM NetworkStays ==
    ASSUME OnePerNode
    PROVE  Spec => NetworkStable
  <1>1. Init => StableInv
    BY StableInit
  <1>2. StableInv /\ [Next]_vars => StableInv'
    BY StableStep
  <1>3. StableInv /\ [Next]_vars =>
          [\A h \in Hosts : hostNet[h] # NoNet => hostNet'[h] = hostNet[h]]_vars
    BY StableAction
  <1> QED
    BY <1>1, <1>2, <1>3, PTL DEF Spec, NetworkStable

-----------------------------------------------------------------------------
(***************************************************************************)
(* When initialisations do not overlap at all, nodes own distinct networks *)
(* until the pool is filled a second time, and what a call returns is what *)
(* etcd and the datapath's map say.                                        *)
(***************************************************************************)

\* One initialisation is under way at most.
OneBusy == \A p, q \in Procs : Busy(p) /\ Busy(q) => p = q

\* Before the first fill nothing has been taken.
Untouched ==
    fills = 0 =>
        /\ pool = {}
        /\ hostNet = [h \in Hosts |-> NoNet]
        /\ maps = NoMaps
        /\ \A p \in Procs : pc[p] \in {"idle", "pool", "fill"}

\* No node's network is still in the pool.
PoolExcludes == \A h \in Hosts : hostNet[h] \notin pool

\* What a process knows about the pool and about its node at each step.
PoolKnowledge == \A p \in Procs :
    /\ pc[p] = "fill" => pool = {}
    /\ pc[p] \in {"net", "take"} => pool # {}
    /\ pc[p] = "setPool" => net[p] \in pool /\ rest[p] = pool \ {net[p]}
    /\ pc[p] = "setHost" =>
          /\ net[p] \in Nets \ pool
          /\ \A h \in Hosts : hostNet[h] # net[p]
    /\ pc[p] \in {"setRange", "map", "setMap", "served"} =>
          /\ net[p] = hostNet[HostOf[p]]
          /\ net[p] # NoNet

\* What it knows about the map: every entry is right, and a process about to
\* write it has seen its latest value.
MapKnowledge ==
    /\ \A n \in MaybeNet : maps[n] # NoHost => hostNet[maps[n]] = n /\ n # NoNet
    /\ \A p \in Procs :
          /\ pc[p] = "setMap" => mapsSeen[p] = maps
          /\ pc[p] = "served" => maps[net[p]] = HostOf[p]

OnceInv ==
    /\ TypeOK
    /\ OneBusy
    /\ Untouched
    /\ Undecided
    /\ fills <= 1 => NetworksDistinct /\ PoolExcludes /\ PoolKnowledge /\ MapKnowledge

LEMMA OnceInit == Init => OnceInv
  <1> SUFFICES ASSUME Init PROVE OnceInv
    OBVIOUS
  <1>1. TypeOK
    BY InitType
  <1>2. OneBusy /\ Untouched /\ Undecided
    BY DEF Init, OneBusy, Untouched, Undecided, Busy, Resting
  <1>3. NetworksDistinct /\ PoolExcludes /\ PoolKnowledge
    BY DEF Init, NetworksDistinct, PoolExcludes, PoolKnowledge
  <1>4. MapKnowledge
    BY DEF Init, MapKnowledge, NoMaps
  <1> QED
    BY <1>1, <1>2, <1>3, <1>4 DEF OnceInv

\* While a process is initialising, every other one rests.
LEMMA OthersRest ==
    ASSUME OneBusy, NEW p \in Procs, Busy(p), NEW q \in Procs, q # p
    PROVE  pc[q] \in Resting
  BY DEF OneBusy, Busy

LEMMA OnceStep ==
    ASSUME Overlap = {}
    PROVE  OnceInv /\ [Next]_vars => OnceInv'
  <1> SUFFICES ASSUME OnceInv, [Next]_vars PROVE OnceInv'
    OBVIOUS
  <1>t. TypeOK /\ TypeOK'
    BY StepType DEF OnceInv
  <1>u. CASE UNCHANGED vars
    BY <1>t, <1>u DEF vars, OnceInv, OneBusy, Untouched, Undecided, Busy,
       NetworksDistinct, PoolExcludes, PoolKnowledge, MapKnowledge
  <1>n. CASE Next
    <2> PICK p \in Procs : Start(p) \/ Step(p) \/ Fail(p)
      BY <1>n DEF Next
    <2>a. HostOf[p] \in Hosts /\ NoNet \notin Nets /\ NoHost \notin Hosts
      BY SubnetPoolAssumption
    <2>o. \A q \in Procs : q # p => pc[q] \in Resting
      <3>1. CASE Start(p)
        BY <3>1 DEF Start, Busy
      <3>2. CASE ~Start(p)
        <4>1. Busy(p)
          BY <3>2, NextCases DEF PoolGet, PoolFill, NetGet, Take, PoolSet, HostSet,
             RangeSet, MapGet, MapSet, Fail, Busy, Resting
        <4> QED
          BY <4>1, OthersRest DEF OnceInv
      <3> QED
        BY <3>1, <3>2
    <2>p. \A q \in Procs : q # p => pc'[q] = pc[q] /\ net'[q] = net[q]
      BY <1>t, NextCases DEF Start, PoolGet, PoolFill, NetGet, Take, Pick, PoolSet,
         HostSet, RangeSet, MapGet, MapSet, Fail, Goto, TypeOK
    <2>b. OneBusy'
      BY <2>o, <2>p DEF OneBusy, Busy
    <2>1. CASE Start(p)
      <3> USE <1>t, <2>a, <2>o, <2>p, <2>1 DEF OnceInv, TypeOK, Start, Goto, etcdVars
      <3>1. Untouched' /\ Undecided'
        BY DEF Untouched, Undecided
      <3>2. ASSUME fills' <= 1 PROVE NetworksDistinct' /\ PoolExcludes'
        BY <3>2 DEF NetworksDistinct, PoolExcludes
      <3>3. ASSUME fills' <= 1 PROVE PoolKnowledge'
        BY <3>3 DEF PoolKnowledge
      <3>4. ASSUME fills' <= 1 PROVE MapKnowledge'
        BY <3>4 DEF MapKnowledge
      <3> QED
        BY <2>b, <3>1, <3>2, <3>3, <3>4
    <2>2. CASE PoolGet(p)
      <3> USE <1>t, <2>a, <2>o, <2>p, <2>2 DEF OnceInv, TypeOK, PoolGet, Goto, etcdVars
      <3>1. Untouched' /\ Undecided'
        BY DEF Untouched, Undecided
      <3>2. ASSUME fills' <= 1 PROVE NetworksDistinct' /\ PoolExcludes'
        BY <3>2 DEF NetworksDistinct, PoolExcludes
      <3>3. ASSUME fills' <= 1 PROVE PoolKnowledge'
        BY <3>3 DEF PoolKnowledge
      <3>4. ASSUME fills' <= 1 PROVE MapKnowledge'
        BY <3>4 DEF MapKnowledge
      <3> QED
        BY <2>b, <3>1, <3>2, <3>3, <3>4
    <2>3. CASE PoolFill(p)
      <3> USE <1>t, <2>a, <2>o, <2>p, <2>3 DEF OnceInv, TypeOK, PoolFill, Goto, etcdVars
      <3>1. Untouched' /\ Undecided'
        BY DEF Untouched, Undecided
      <3>2. ASSUME fills' <= 1 PROVE NetworksDistinct' /\ PoolExcludes'
        BY <3>2 DEF NetworksDistinct, PoolExcludes, Untouched
      <3>3. ASSUME fills' <= 1 PROVE PoolKnowledge'
        BY <3>3, SubnetPoolAssumption DEF PoolKnowledge, Resting
      <3>4. ASSUME fills' <= 1 PROVE MapKnowledge'
        BY <3>4 DEF MapKnowledge
      <3> QED
        BY <2>b, <3>1, <3>2, <3>3, <3>4
    <2>4. CASE NetGet(p)
      <3> USE <1>t, <2>a, <2>o, <2>p, <2>4 DEF OnceInv, TypeOK, NetGet, Goto, etcdVars
      <3>1. Untouched' /\ Undecided'
        BY DEF Untouched, Undecided
      <3>2. ASSUME fills' <= 1 PROVE NetworksDistinct' /\ PoolExcludes'
        BY <3>2 DEF NetworksDistinct, PoolExcludes
      <3>3. ASSUME fills' <= 1 PROVE PoolKnowledge'
        BY <3>3 DEF PoolKnowledge
      <3>4. ASSUME fills' <= 1 PROVE MapKnowledge'
        BY <3>4 DEF MapKnowledge
      <3> QED
        BY <2>b, <3>1, <3>2, <3>3, <3>4
    <2>5. CASE Take(p)
      <3> USE <1>t, <2>a, <2>o, <2>p, <2>5 DEF OnceInv, TypeOK, Take, Pick, Goto, etcdVars
      <3>1. Untouched' /\ Undecided'
        BY DEF Untouched, Undecided
      <3>2. ASSUME fills' <= 1 PROVE NetworksDistinct' /\ PoolExcludes'
        BY <3>2 DEF NetworksDistinct, PoolExcludes
      <3>3. ASSUME fills' <= 1 PROVE PoolKnowledge'
        BY <3>3 DEF PoolKnowledge
      <3>4. ASSUME fills' <= 1 PROVE MapKnowledge'
        BY <3>4 DEF MapKnowledge
      <3> QED
        BY <2>b, <3>1, <3>2, <3>3, <3>4
    <2>6. CASE PoolSet(p)
      <3> USE <1>t, <2>a, <2>o, <2>p, <2>6 DEF OnceInv, TypeOK, PoolSet, Goto, etcdVars
      <3>1. Untouched' /\ Undecided'
        BY DEF Untouched, Undecided
      <3>2. ASSUME fills' <= 1 PROVE NetworksDistinct' /\ PoolExcludes'
        BY <3>2 DEF NetworksDistinct, PoolExcludes, PoolKnowledge
      <3>3. ASSUME fills' <= 1 PROVE PoolKnowledge'
        BY <3>3 DEF PoolExcludes, PoolKnowledge, Resting
      <3>4. ASSUME fills' <= 1 PROVE MapKnowledge'
        BY <3>4 DEF MapKnowledge
      <3> QED
        BY <2>b, <3>1, <3>2, <3>3, <3>4
    <2>7. CASE HostSet(p)
      <3> USE <1>t, <2>a, <2>o, <2>p, <2>7 DEF OnceInv, TypeOK, HostSet, Goto, etcdVars
      <3>1. Untouched' /\ Undecided'
        BY DEF Untouched, Undecided, Resting
      <3>2. ASSUME fills' <= 1 PROVE NetworksDistinct' /\ PoolExcludes'
        BY <3>2 DEF NetworksDistinct, PoolExcludes, PoolKnowledge
      <3>3. ASSUME fills' <= 1 PROVE PoolKnowledge'
        BY <3>3 DEF Undecided, PoolKnowledge, Resting
      <3>4. ASSUME fills' <= 1 PROVE MapKnowledge'
        BY <3>4 DEF Undecided, MapKnowledge
      <3> QED
        BY <2>b, <3>1, <3>2, <3>3, <3>4
    <2>8. CASE RangeSet(p)
      <3> USE <1>t, <2>a, <2>o, <2>p, <2>8 DEF OnceInv, TypeOK, RangeSet, Goto, etcdVars
      <3>1. Untouched' /\ Undecided'
        BY DEF Untouched, Undecided
      <3>2. ASSUME fills' <= 1 PROVE NetworksDistinct' /\ PoolExcludes'
        BY <3>2 DEF NetworksDistinct, PoolExcludes
      <3>3. ASSUME fills' <= 1 PROVE PoolKnowledge'
        BY <3>3 DEF PoolKnowledge
      <3>4. ASSUME fills' <= 1 PROVE MapKnowledge'
        BY <3>4 DEF MapKnowledge
      <3> QED
        BY <2>b, <3>1, <3>2, <3>3, <3>4
    <2>9. CASE MapGet(p)
      <3> USE <1>t, <2>a, <2>o, <2>p, <2>9 DEF OnceInv, TypeOK, MapGet, Goto, etcdVars
      <3>1. Untouched' /\ Undecided'
        BY DEF Untouched, Undecided
      <3>2. ASSUME fills' <= 1 PROVE NetworksDistinct' /\ PoolExcludes'
        BY <3>2 DEF NetworksDistinct, PoolExcludes
      <3>3. ASSUME fills' <= 1 PROVE PoolKnowledge'
        <4>1. \A q \in Procs : q # p \/ pc'[q] \in {"served", "setMap"}
          OBVIOUS
        <4>2. pool' = pool /\ rest' = rest /\ hostNet' = hostNet /\ net' = net
          OBVIOUS
        <4>3. fills <= 1
          BY <3>3
        <4> QED
          BY <4>1, <4>2, <4>3 DEF PoolKnowledge
      <3>4. ASSUME fills' <= 1 PROVE MapKnowledge'
        BY <3>4 DEF NetworksDistinct, PoolKnowledge, MapKnowledge
      <3> QED
        BY <2>b, <3>1, <3>2, <3>3, <3>4
    <2>10. CASE MapSet(p)
      <3> USE <1>t, <2>a, <2>o, <2>p, <2>10 DEF OnceInv, TypeOK, MapSet, Goto, etcdVars
      <3>1. Untouched' /\ Undecided'
        BY DEF Untouched, Undecided
      <3>2. ASSUME fills' <= 1 PROVE NetworksDistinct' /\ PoolExcludes'
        BY <3>2 DEF NetworksDistinct, PoolExcludes
      <3>3. ASSUME fills' <= 1 PROVE PoolKnowledge'
        BY <3>3 DEF PoolKnowledge
      <3>4. ASSUME fills' <= 1 PROVE MapKnowledge'
        <4>1. maps' = [maps EXCEPT ![net[p]] = HostOf[p]]
          BY <3>4 DEF MapKnowledge
        <4>2. net[p] \in MaybeNet /\ net[p] # NoNet /\ net[p] = hostNet[HostOf[p]]
          BY <3>4 DEF PoolKnowledge
        <4>3. ASSUME NEW n \in MaybeNet, maps'[n] # NoHost
              PROVE  hostNet[maps'[n]] = n /\ n # NoNet
          <5>1. CASE n = net[p]
            BY <4>1, <4>2, <5>1
          <5>2. CASE n # net[p]
            BY <3>4, <4>1, <4>3, <5>2 DEF MapKnowledge
          <5> QED
            BY <5>1, <5>2
        <4>4. ASSUME NEW q \in Procs, pc'[q] = "setMap"
              PROVE  FALSE
          BY <4>4 DEF Resting
        <4>5. ASSUME NEW q \in Procs, pc'[q] = "served"
              PROVE  maps'[net'[q]] = HostOf[q]
          <5>1. CASE q = p
            BY <4>1, <4>2, <5>1
          <5>2. CASE q # p /\ net[q] # net[p]
            BY <3>4, <4>1, <4>5, <5>2 DEF MapKnowledge
          <5>3. CASE q # p /\ net[q] = net[p]
            <6>1. hostNet[HostOf[q]] = hostNet[HostOf[p]]
              BY <3>4, <4>2, <4>5, <5>3 DEF PoolKnowledge
            <6>2. HostOf[q] = HostOf[p]
              BY <3>4, <4>2, <6>1, SubnetPoolAssumption DEF NetworksDistinct
            <6> QED
              BY <4>1, <4>2, <5>3, <6>2
          <5> QED
            BY <5>1, <5>2, <5>3
        <4> QED
          BY <4>3, <4>4, <4>5 DEF MapKnowledge
      <3> QED
        BY <2>b, <3>1, <3>2, <3>3, <3>4
    <2>11. CASE Fail(p)
      <3> USE <1>t, <2>a, <2>o, <2>p, <2>11 DEF OnceInv, TypeOK, Fail, Goto, etcdVars
      <3>1. Untouched' /\ Undecided'
        BY DEF Untouched, Undecided
      <3>2. ASSUME fills' <= 1 PROVE NetworksDistinct' /\ PoolExcludes'
        BY <3>2 DEF NetworksDistinct, PoolExcludes
      <3>3. ASSUME fills' <= 1 PROVE PoolKnowledge'
        BY <3>3 DEF PoolKnowledge
      <3>4. ASSUME fills' <= 1 PROVE MapKnowledge'
        BY <3>4 DEF MapKnowledge
      <3> QED
        BY <2>b, <3>1, <3>2, <3>3, <3>4
    <2> QED
      BY <2>1, <2>2, <2>3, <2>4, <2>5, <2>6, <2>7, <2>8, <2>9, <2>10, <2>11,
         NextCases
  <1> QED
    BY <1>u, <1>n

LEMMA OnceImplies == OnceInv => OncePerFill /\ ServedAgrees
  <1> SUFFICES ASSUME OnceInv PROVE OncePerFill /\ ServedAgrees
    OBVIOUS
  <1>1. OncePerFill
    BY DEF OnceInv, OncePerFill, PoolExcludes, Assigned
  <1>2. ServedAgrees
    BY DEF OnceInv, ServedAgrees, PoolKnowledge, MapKnowledge
  <1> QED
    BY <1>1, <1>2

\* When initialisations do not overlap, no two nodes own one network and the
\* pool offers none that is owned, until the pool is filled again: writing the
\* pool before the node's key keeps this true wherever a process dies.
THEOREM NetworksOncePerFill ==
    ASSUME Overlap = {}
    PROVE  Spec => []OncePerFill
  BY OnceInit, OnceStep, OnceImplies, PTL DEF Spec

\* ... and a call that returns has told the truth about the node's network, and
\* left the datapath's map leading from that network to the node.
THEOREM ServiceAgrees ==
    ASSUME Overlap = {}
    PROVE  Spec => []ServedAgrees
  BY OnceInit, OnceStep, OnceImplies, PTL DEF Spec

-----------------------------------------------------------------------------
(***************************************************************************)
(* The configured range is installed before a node is served, but for one  *)
(* node per initialisation that dies, when no two overlap on one node.     *)
(***************************************************************************)

\* The process about to set a range sets that of its node's network.
RangeForNode == \A p \in Procs : pc[p] = "setRange" => net[p] = hostNet[HostOf[p]]

RangeInv ==
    /\ StableInv
    /\ RangeForNode
    /\ Ranged => IsFiniteSet(Rangeless) /\ Cardinality(Rangeless) <= fails

LEMMA RangeInit == Init => RangeInv
  <1> SUFFICES ASSUME Init PROVE RangeInv
    OBVIOUS
  <1>1. Rangeless = {}
    BY DEF Init, Rangeless
  <1>2. RangeForNode
    BY DEF Init, RangeForNode
  <1>3. fails = 0
    BY DEF Init
  <1> QED
    BY <1>1, <1>2, <1>3, StableInit, FS_EmptySet DEF RangeInv

LEMMA RangeForNodeStep ==
    ASSUME OnePerNode, StableInv, RangeForNode, [Next]_vars
    PROVE  RangeForNode'
  <1>t. /\ pc \in [Procs -> Resting \cup Steps] /\ net \in [Procs -> MaybeNet]
        /\ hostNet \in [Hosts -> MaybeNet] /\ HostOf \in [Procs -> Hosts]
    BY SubnetPoolAssumption DEF StableInv, TypeOK
  <1> SUFFICES ASSUME NEW q \in Procs, pc'[q] = "setRange"
               PROVE  net'[q] = hostNet'[HostOf[q]]
    BY DEF RangeForNode
  <1>u. CASE UNCHANGED vars
    BY <1>u DEF vars, RangeForNode
  <1>n. CASE Next
    <2> PICK p \in Procs : Start(p) \/ Step(p) \/ Fail(p)
      BY <1>n DEF Next
    <2>1. CASE HostSet(p)
      <3>1. CASE q = p
        BY <1>t, <2>1, <3>1 DEF HostSet
      <3>2. CASE q # p
        <4>1. pc[q] = "setRange" /\ Busy(q) /\ Busy(p)
          BY <1>t, <2>1, <3>2 DEF HostSet, Goto, Busy, Resting
        <4>2. HostOf[q] # HostOf[p]
          BY <3>2, <4>1 DEF StableInv, NodeExclusive
        <4> QED
          BY <1>t, <2>1, <4>1, <4>2 DEF HostSet, RangeForNode
      <3> QED
        BY <3>1, <3>2
    <2>2. CASE ~ HostSet(p)
      <3>1. hostNet' = hostNet
        BY <2>2, NextCases DEF Start, PoolGet, PoolFill, NetGet, Take, PoolSet,
           RangeSet, MapGet, MapSet, Fail, etcdVars
      <3>2. q # p /\ pc[q] = "setRange"
        BY <1>t, <2>2, NextCases DEF Start, PoolGet, PoolFill, NetGet, Take, PoolSet,
           RangeSet, MapGet, MapSet, Fail, Goto
      <3>3. net'[q] = net[q]
        BY <1>t, <2>2, <3>2, NextCases DEF Start, PoolGet, PoolFill, NetGet, Take, Pick,
           PoolSet, RangeSet, MapGet, MapSet, Fail
      <3> QED
        BY <3>1, <3>2, <3>3 DEF RangeForNode
    <2> QED
      BY <2>1, <2>2
  <1> QED
    BY <1>u, <1>n

\* The node whose initialisation dies is the only one that can lose its range.
LEMMA RangelessStep ==
    ASSUME StableInv, RangeForNode, Ranged, NEW p \in Procs, Start(p) \/ Step(p) \/ Fail(p)
    PROVE  \/ Rangeless' \subseteq Rangeless /\ fails' = fails
           \/ Rangeless' \subseteq Rangeless \cup {HostOf[p]} /\ fails' = fails + 1
  <1>t. /\ pc \in [Procs -> Resting \cup Steps] /\ net \in [Procs -> MaybeNet]
        /\ hostNet \in [Hosts -> MaybeNet] /\ HostOf \in [Procs -> Hosts]
    BY SubnetPoolAssumption DEF StableInv, TypeOK
  <1>o. \A q \in Procs : q # p => pc'[q] = pc[q]
    BY <1>t, NextCases DEF Start, PoolGet, PoolFill, NetGet, Take, PoolSet, HostSet,
       RangeSet, MapGet, MapSet, Fail, Goto
  <1>1. CASE Fail(p)
    <2>1. UNCHANGED <<hostNet, ranges>> /\ fails' = fails + 1
      BY <1>1 DEF Fail, etcdVars
    <2>2. ASSUME NEW h \in Rangeless', h # HostOf[p] PROVE h \in Rangeless
      BY <1>o, <2>1, <2>2 DEF Rangeless
    <2> QED
      BY <2>1, <2>2
  <1>2. CASE HostSet(p)
    <2>1. /\ hostNet' = [hostNet EXCEPT ![HostOf[p]] = net[p]]
          /\ pc'[p] = "setRange" /\ UNCHANGED <<ranges, fails>>
      BY <1>t, <1>2 DEF HostSet, Goto
    <2>2. ASSUME NEW h \in Rangeless' PROVE h \in Rangeless
      <3>1. h # HostOf[p] /\ h \in Hosts
        BY <2>1, <2>2 DEF Rangeless
      <3> QED
        BY <1>t, <1>o, <2>1, <2>2, <3>1 DEF Rangeless
    <2> QED
      BY <2>1, <2>2
  <1>3. CASE RangeSet(p)
    <2>1. /\ ranges' = ranges \cup {<<HostOf[p], net[p]>>}
          /\ net[p] = hostNet[HostOf[p]] /\ UNCHANGED <<hostNet, fails>>
      BY <1>3 DEF RangeSet, RangeForNode
    <2>2. ASSUME NEW h \in Rangeless' PROVE h \in Rangeless
      <3>1. h # HostOf[p] /\ h \in Hosts
        BY <2>1, <2>2 DEF Rangeless
      <3> QED
        BY <1>o, <2>1, <2>2, <3>1 DEF Rangeless
    <2> QED
      BY <2>1, <2>2
  <1>4. CASE ~ Fail(p) /\ ~ HostSet(p) /\ ~ RangeSet(p)
    <2>1. UNCHANGED <<hostNet, ranges, fails>> /\ pc[p] # "setRange"
      BY <1>4, NextCases DEF Start, PoolGet, PoolFill, NetGet, Take, PoolSet, MapGet,
         MapSet, etcdVars, Busy, Resting
    <2>2. ASSUME NEW h \in Rangeless' PROVE h \in Rangeless
      BY <1>o, <2>1, <2>2 DEF Rangeless
    <2> QED
      BY <2>1, <2>2
  <1> QED
    BY <1>1, <1>2, <1>3, <1>4

LEMMA RangeStep ==
    ASSUME OnePerNode
    PROVE  RangeInv /\ [Next]_vars => RangeInv'
  <1> SUFFICES ASSUME RangeInv, [Next]_vars PROVE RangeInv'
    OBVIOUS
  <1>1. StableInv' /\ RangeForNode'
    BY StableStep, RangeForNodeStep DEF RangeInv
  <1>2. ASSUME Ranged PROVE IsFiniteSet(Rangeless)' /\ (Cardinality(Rangeless) <= fails)'
    <2>f. fails \in Nat /\ IsFiniteSet(Rangeless) /\ Cardinality(Rangeless) <= fails
      BY <1>2, SubnetPoolAssumption DEF RangeInv, StableInv, TypeOK
    <2>c. Cardinality(Rangeless) \in Nat
      BY <2>f, FS_CardinalityType
    <2>1. CASE UNCHANGED vars
      BY <2>f, <2>1 DEF vars, Rangeless
    <2>2. CASE Rangeless' \subseteq Rangeless /\ fails' = fails
      <3>1. IsFiniteSet(Rangeless') /\ Cardinality(Rangeless') <= Cardinality(Rangeless)
        BY <2>f, <2>2, FS_Subset
      <3>2. Cardinality(Rangeless') \in Nat
        BY <3>1, FS_CardinalityType
      <3> QED
        BY <2>f, <2>c, <2>2, <3>1, <3>2
    <2>3. ASSUME NEW p \in Procs,
                 Rangeless' \subseteq Rangeless \cup {HostOf[p]}, fails' = fails + 1
          PROVE  IsFiniteSet(Rangeless)' /\ (Cardinality(Rangeless) <= fails)'
      <3> DEFINE All == Rangeless \cup {HostOf[p]}
      <3>1. /\ IsFiniteSet(All)
            /\ Cardinality(All) \in {Cardinality(Rangeless), Cardinality(Rangeless) + 1}
        BY <2>f, FS_AddElement
      <3>2. IsFiniteSet(Rangeless') /\ Cardinality(Rangeless') <= Cardinality(All)
        <4>1. Rangeless' \subseteq All
          BY <2>3
        <4> HIDE DEF All
        <4> QED
          BY <3>1, <4>1, FS_Subset
      <3>3. Cardinality(Rangeless') \in Nat
        BY <3>2, FS_CardinalityType
      <3> HIDE DEF All
      <3> QED
        BY <2>f, <2>c, <2>3, <3>1, <3>2, <3>3
    <2> QED
      <3>1. ASSUME Next
            PROVE  \E p \in Procs :
                      \/ Rangeless' \subseteq Rangeless /\ fails' = fails
                      \/ Rangeless' \subseteq Rangeless \cup {HostOf[p]} /\ fails' = fails + 1
        <4> PICK p \in Procs : Start(p) \/ Step(p) \/ Fail(p)
          BY <3>1 DEF Next
        <4> QED
          BY <1>2, RangelessStep DEF RangeInv
      <3> QED
        BY <2>1, <2>2, <2>3, <3>1
  <1> QED
    BY <1>1, <1>2 DEF RangeInv

\* With a range configured, however the initialisations of different nodes overlap and
\* wherever they die: the nodes that have a network but no range, and will never get
\* one as networkInit takes them for initialised (ipam.go:325), are at most as many as
\* the initialisations that died.
THEOREM RangeBeforeService ==
    ASSUME OnePerNode
    PROVE  Spec => []RangeInstalled
  <1>1. RangeInv => RangeInstalled
    BY DEF RangeInv, RangeInstalled
  <1> QED
    BY <1>1, RangeInit, RangeStep, PTL DEF Spec

-----------------------------------------------------------------------------
(***************************************************************************)
(* What a death costs, and how long one fill of the pool lasts, when       *)
(* initialisations do not overlap.                                         *)
(***************************************************************************)

LEMMA LostFinite ==
    /\ IsFiniteSet(Lost) /\ Cardinality(Lost) \in Nat
    /\ IsFiniteSet(Lost') /\ Cardinality(Lost') \in Nat
  <1>1. Lost \in SUBSET Nets /\ Lost' \in SUBSET Nets
    BY DEF Lost
  <1> QED
    BY <1>1, SubnetPoolAssumption, FS_Subset, FS_CardinalityType

\* The node's own network is all that is neither in the pool nor lost when the
\* process that took it has written it down or is about to.
LEMMA LostStep ==
    ASSUME Overlap = {}, OnceInv, OnceInv', fills = 1, fills' = 1, [Next]_vars
    PROVE  \/ fails' = fails /\ Lost' \subseteq Lost
           \/ fails' = fails + 1 /\ \E n \in MaybeNet : Lost' \subseteq Lost \cup {n}
  <1>t. /\ pc \in [Procs -> Resting \cup Steps] /\ net \in [Procs -> MaybeNet]
        /\ hostNet \in [Hosts -> MaybeNet] /\ HostOf \in [Procs -> Hosts]
        /\ PoolKnowledge /\ Undecided
    BY SubnetPoolAssumption DEF OnceInv, TypeOK
  <1>u. CASE UNCHANGED vars
    BY <1>u DEF vars, Lost, Assigned, InFlight
  <1>n. CASE Next
    <2> PICK p \in Procs : Start(p) \/ Step(p) \/ Fail(p)
      BY <1>n DEF Next
    <2> USE <1>t DEF Lost, Assigned, InFlight, Goto, etcdVars
    <2>1. CASE PoolFill(p)
      BY <2>1 DEF PoolFill
    <2>2. CASE PoolSet(p)
      <3>1. /\ rest[p] = pool \ {net[p]} /\ pool' = rest[p] /\ pc'[p] = "setHost"
            /\ UNCHANGED <<hostNet, net, fails>>
            /\ \A q \in Procs : q # p => pc'[q] = pc[q]
        BY <2>2 DEF PoolSet, PoolKnowledge, OnceInv
      <3>2. InFlight \cup {net[p]} \subseteq InFlight'
        BY <2>2, <3>1 DEF PoolSet
      <3> HIDE DEF InFlight
      <3> QED
        BY <3>1, <3>2
    <2>3. CASE HostSet(p)
      <3>1. hostNet[HostOf[p]] = NoNet
        BY <2>3 DEF HostSet, Undecided
      <3>2. Assigned' = (Assigned \cup {net[p]}) \ {NoNet}
        <4>1. hostNet' = [hostNet EXCEPT ![HostOf[p]] = net[p]]
          BY <2>3 DEF HostSet
        <4> QED
          BY <3>1, <4>1
      <3>3. InFlight \subseteq InFlight' \cup {net[p]}
        BY <2>3 DEF HostSet
      <3>4. pool' = pool /\ fails' = fails
        BY <2>3 DEF HostSet
      <3> HIDE DEF InFlight, Assigned
      <3> QED
        BY <3>2, <3>3, <3>4, SubnetPoolAssumption
    <2>4. CASE Fail(p)
      <3>1. InFlight \subseteq InFlight' \cup {net[p]}
        BY <2>4 DEF Fail
      <3>2. pool' = pool /\ Assigned' = Assigned /\ fails' = fails + 1
        BY <2>4 DEF Fail
      <3> HIDE DEF InFlight, Assigned
      <3> QED
        BY <3>1, <3>2
    <2>5. CASE Start(p) \/ NetGet(p) \/ Take(p) \/ PoolGet(p) \/ RangeSet(p) \/ MapGet(p)
               \/ MapSet(p)
      <3>1. UNCHANGED <<pool, hostNet, fails>>
        BY <2>5 DEF Start, NetGet, Take, PoolGet, RangeSet, MapGet, MapSet
      <3>2. ASSUME NEW q \in Procs, pc[q] = "setHost"
            PROVE  pc'[q] = "setHost" /\ net'[q] = net[q]
        BY <2>5, <3>2 DEF Start, NetGet, Take, Pick, PoolGet, RangeSet, MapGet, MapSet,
                          Busy, Resting
      <3>3. InFlight \subseteq InFlight'
        BY <3>2
      <3> HIDE DEF InFlight
      <3> QED
        BY <3>1, <3>3
    <2> QED
      BY <2>1, <2>2, <2>3, <2>4, <2>5, NextCases
  <1> QED
    BY <1>u, <1>n

LossInv == OnceInv /\ LossBoundedByFailures

LEMMA LossInit == Init => LossInv
  BY OnceInit DEF Init, LossInv, LossBoundedByFailures

LEMMA LossStep ==
    ASSUME Overlap = {}
    PROVE  LossInv /\ [Next]_vars => LossInv'
  <1> SUFFICES ASSUME LossInv, [Next]_vars, fills' = 1
               PROVE  Cardinality(Lost') <= fails'
    BY OnceStep DEF LossInv, LossBoundedByFailures
  <1>1. OnceInv /\ OnceInv' /\ fails \in Nat /\ fails' \in Nat
    BY OnceStep DEF LossInv, OnceInv, TypeOK
  <1>2. /\ IsFiniteSet(Lost) /\ Cardinality(Lost) \in Nat
        /\ IsFiniteSet(Lost') /\ Cardinality(Lost') \in Nat
    BY LostFinite
  <1>3. CASE fills = 1
    <2>1. Cardinality(Lost) <= fails
      BY <1>3 DEF LossInv, LossBoundedByFailures
    <2>2. CASE fails' = fails /\ Lost' \subseteq Lost
      <3>1. Cardinality(Lost') <= Cardinality(Lost)
        BY <1>2, <2>2, FS_Subset
      <3> QED
        BY <1>1, <1>2, <2>1, <2>2, <3>1
    <2>3. ASSUME NEW n \in MaybeNet, fails' = fails + 1, Lost' \subseteq Lost \cup {n}
          PROVE  Cardinality(Lost') <= fails'
      <3>1. /\ IsFiniteSet(Lost \cup {n})
            /\ Cardinality(Lost \cup {n}) \in {Cardinality(Lost), Cardinality(Lost) + 1}
        BY <1>2, FS_AddElement
      <3>2. Cardinality(Lost') <= Cardinality(Lost \cup {n})
        BY <2>3, <3>1, FS_Subset
      <3> QED
        BY <1>1, <1>2, <2>1, <2>3, <3>1, <3>2
    <2> QED
      BY <1>1, <1>3, <2>2, <2>3, LostStep
  <1>4. CASE fills # 1
    <2>1. \E p \in Procs : PoolFill(p)
      BY <1>4, NextCases DEF Next, vars, Start, PoolGet, NetGet, Take, PoolSet,
         HostSet, RangeSet, MapGet, MapSet, Fail
    <2>2. pool' = Nets
      BY <2>1 DEF PoolFill
    <2>3. Lost' = {}
      BY <2>2 DEF Lost
    <2> QED
      BY <1>1, <2>3, FS_EmptySet
  <1> QED
    BY <1>3, <1>4

\* An initialisation that dies loses at most the one network it had taken out of
\* the pool (ipam.go:343 before :348), and nothing else ever loses one.
THEOREM DeathLosesOne ==
    ASSUME Overlap = {}
    PROVE  Spec => []LossBoundedByFailures
  BY LossInit, LossStep, PTL DEF Spec, LossInv

-----------------------------------------------------------------------------
(***************************************************************************)
(* With a network for every node and for every initialisation that dies,   *)
(* the pool is filled once, and SubnetPool implements NetworkAllocator.    *)
(***************************************************************************)

Ample == IsFiniteSet(Hosts) /\ Cardinality(Nets) > Cardinality(Hosts) + MaxFails

LEMMA AssignedBounded ==
    ASSUME OnceInv, IsFiniteSet(Hosts)
    PROVE  IsFiniteSet(Assigned) /\ Cardinality(Assigned) <= Cardinality(Hosts)
  <1> DEFINE Owned == {hostNet[h] : h \in Hosts}
  <1>1. hostNet \in Surjection(Hosts, Owned)
    BY DEF OnceInv, TypeOK, Surjection
  <1>2. IsFiniteSet(Owned) /\ Cardinality(Owned) <= Cardinality(Hosts)
    BY <1>1, FS_Surjection
  <1>3. Assigned \in SUBSET Owned
    BY DEF Assigned
  <1>4. IsFiniteSet(Assigned) /\ Cardinality(Assigned) <= Cardinality(Owned)
    BY <1>2, <1>3, FS_Subset
  <1>5. /\ Cardinality(Assigned) \in Nat /\ Cardinality(Owned) \in Nat
        /\ Cardinality(Hosts) \in Nat
    BY <1>2, <1>4, FS_CardinalityType
  <1> HIDE DEF Owned
  <1> QED
    BY <1>2, <1>4, <1>5

\* Where the pool is empty, each network is a node's or was lost.
LEMMA EmptyPoolCounted ==
    ASSUME LossInv, Ample, fills = 1, NEW p \in Procs, pc[p] = "fill"
    PROVE  FALSE
  <1>1. OnceInv /\ Cardinality(Lost) <= fails /\ fails \in 0..MaxFails
    BY DEF LossInv, LossBoundedByFailures, OnceInv, TypeOK
  <1>2. pool = {}
    BY <1>1 DEF OnceInv, PoolKnowledge
  <1>3. InFlight = {}
    BY <1>1 DEF OnceInv, OneBusy, Busy, Resting, InFlight
  <1>4. Nets \in SUBSET (Assigned \cup Lost)
    BY <1>2, <1>3 DEF Lost
  <1>5. /\ IsFiniteSet(Assigned) /\ Cardinality(Assigned) <= Cardinality(Hosts)
        /\ IsFiniteSet(Lost)
    BY <1>1, AssignedBounded, LostFinite DEF Ample
  <1>6. /\ IsFiniteSet(Assigned \cup Lost)
        /\ Cardinality(Assigned \cup Lost) =
               Cardinality(Assigned) + Cardinality(Lost) - Cardinality(Assigned \cap Lost)
    BY <1>5, FS_Union
  <1>7. Cardinality(Nets) <= Cardinality(Assigned \cup Lost)
    BY <1>4, <1>6, FS_Subset
  <1>8. IsFiniteSet(Assigned \cap Lost)
    BY <1>5, FS_Intersection
  <1>9. /\ Cardinality(Assigned) \in Nat /\ Cardinality(Lost) \in Nat
        /\ Cardinality(Assigned \cap Lost) \in Nat /\ Cardinality(Hosts) \in Nat
        /\ Cardinality(Nets) \in Nat /\ Cardinality(Assigned \cup Lost) \in Nat
    BY <1>5, <1>6, <1>8, SubnetPoolAssumption, FS_CardinalityType DEF Ample
  <1> QED
    BY <1>1, <1>5, <1>6, <1>7, <1>9, SubnetPoolAssumption DEF Ample

OnceFilledInv == LossInv /\ fills <= 1

LEMMA OnceFilledStep ==
    ASSUME Overlap = {}, Ample
    PROVE  OnceFilledInv /\ [Next]_vars => OnceFilledInv'
  <1> SUFFICES ASSUME OnceFilledInv, [Next]_vars PROVE OnceFilledInv'
    OBVIOUS
  <1>1. LossInv /\ LossInv'
    BY LossStep DEF OnceFilledInv
  <1>2. CASE \E p \in Procs : PoolFill(p)
    <2>1. fills # 1
      BY <1>1, <1>2, EmptyPoolCounted DEF PoolFill
    <2> QED
      BY <1>1, <1>2, <2>1 DEF OnceFilledInv, PoolFill, LossInv, OnceInv, TypeOK
  <1>3. CASE ~ \E p \in Procs : PoolFill(p)
    <2>1. fills' = fills
      BY <1>3, NextCases DEF Next, vars, Start, PoolGet, NetGet, Take, PoolSet,
         HostSet, RangeSet, MapGet, MapSet, Fail
    <2> QED
      BY <1>1, <2>1 DEF OnceFilledInv
  <1> QED
    BY <1>2, <1>3

LEMMA OnceFilledAlways ==
    ASSUME Overlap = {}, Ample
    PROVE  Spec => []OnceFilledInv
  <1>1. Init => OnceFilledInv
    BY LossInit DEF Init, OnceFilledInv
  <1> QED
    BY <1>1, OnceFilledStep, PTL DEF Spec

\* With networks enough, the pool never runs out: no two nodes ever have the same
\* network ("each node selects a network that is not used yet", ipam.go:470-471).
THEOREM NetworksAlwaysDistinct ==
    ASSUME Overlap = {}, Ample
    PROVE  Spec => []NetworksDistinct
  <1>1. OnceFilledInv => NetworksDistinct
    BY DEF OnceFilledInv, LossInv, OnceInv
  <1> QED
    BY <1>1, OnceFilledAlways, PTL

\* ... and the steps of SubnetPool are those of the atomic allocator: writing a
\* node's key gives it a network no node has, and nothing else changes any.
THEOREM ImplementsAllocator ==
    ASSUME Overlap = {}, Ample
    PROVE  Spec => Allocator!Spec
  <1>1. Init => Allocator!Init
    BY DEF Init, Allocator!Init
  <1>2. OnceFilledInv /\ [Next]_vars => [Allocator!Next]_hostNet
    <2> SUFFICES ASSUME OnceFilledInv, [Next]_vars PROVE [Allocator!Next]_hostNet
      OBVIOUS
    <2>1. ASSUME NEW p \in Procs, HostSet(p)
          PROVE  Allocator!Assign(HostOf[p])
      <3>1. PoolKnowledge /\ Undecided
        BY DEF OnceFilledInv, LossInv, OnceInv
      <3>2. hostNet[HostOf[p]] = NoNet
        BY <2>1, <3>1 DEF HostSet, Undecided
      <3>3. net[p] \in Nets \ Allocator!Assigned
        BY <2>1, <3>1 DEF HostSet, PoolKnowledge, Allocator!Assigned
      <3>4. hostNet' = [hostNet EXCEPT ![HostOf[p]] = net[p]]
        BY <2>1 DEF HostSet
      <3> QED
        BY <3>2, <3>3, <3>4 DEF Allocator!Assign
    <2>2. CASE \E p \in Procs : HostSet(p)
      BY <2>1, <2>2, SubnetPoolAssumption DEF Allocator!Next
    <2>3. CASE ~ \E p \in Procs : HostSet(p)
      BY <2>3, NextCases DEF Next, vars, Start, PoolGet, PoolFill, NetGet, Take,
         PoolSet, RangeSet, MapGet, MapSet, Fail, etcdVars
    <2> QED
      BY <2>2, <2>3
  <1> QED
    BY <1>1, <1>2, OnceFilledAlways, PTL DEF Spec, Allocator!Spec

\* What the cluster expects, and why it is said in that way: under the atomic
\* allocator no two nodes ever have one network, and a node keeps the one it has.
THEOREM AllocatorKeepsApart ==
    Allocator!Spec =>
        /\ []NetworksDistinct
        /\ [][\A h \in Hosts : hostNet[h] # NoNet => hostNet'[h] = hostNet[h]]_hostNet
  <1> DEFINE Inv == hostNet \in [Hosts -> MaybeNet] /\ NetworksDistinct
             Kept == \A h \in Hosts : hostNet[h] # NoNet => hostNet'[h] = hostNet[h]
  <1>1. Allocator!Init => Inv
    BY DEF Allocator!Init, NetworksDistinct, MaybeNet
  <1>2. Inv /\ [Allocator!Next]_hostNet => Inv' /\ [Kept]_hostNet
    <2> SUFFICES ASSUME Inv, [Allocator!Next]_hostNet PROVE Inv' /\ [Kept]_hostNet
      OBVIOUS
    <2>1. CASE UNCHANGED hostNet
      BY <2>1 DEF NetworksDistinct
    <2>2. ASSUME NEW h \in Hosts, Allocator!Assign(h) PROVE Inv' /\ Kept
      <3> PICK n \in Nets \ Allocator!Assigned : hostNet' = [hostNet EXCEPT ![h] = n]
        BY <2>2 DEF Allocator!Assign
      <3>1. hostNet[h] = NoNet /\ n \in MaybeNet /\ \A g \in Hosts : hostNet[g] # n
        BY <2>2, SubnetPoolAssumption DEF Allocator!Assign, Allocator!Assigned, MaybeNet
      <3> QED
        BY <3>1 DEF NetworksDistinct
    <2> QED
      BY <2>1, <2>2 DEF Allocator!Next
  <1> QED
    BY <1>1, <1>2, PTL DEF Allocator!Spec

-----------------------------------------------------------------------------
(***************************************************************************)
(* When the initialisations of different nodes race, nodes can come to     *)
(* share a network.  With networks enough, none is served without one: the *)
(* pool of a race holds too much, and never too little.                    *)
(***************************************************************************)

\* The nodes that have a network, or whose process has taken one from the pool.
Takers ==
    {h \in Hosts : \/ hostNet[h] # NoNet
                   \/ \E p \in Procs : HostOf[p] = h /\ pc[p] \in {"setPool", "setHost"}}

\* Each of them, and each initialisation that died, can have cost one network.
Used == Cardinality(Takers) + fails

RoomIn(s) == Cardinality(Nets) <= Cardinality(s) + Used

Roomy ==
    /\ fills # 0 => RoomIn(pool)
    /\ \A p \in Procs : pc[p] = "setPool" => RoomIn(rest[p])

\* Nobody looks for a network before the pool has been filled.
Started == fills = 0 => /\ pool = {}
                        /\ \A p \in Procs : pc[p] \in {"idle", "pool", "fill"}

\* What a process has taken, and what it serves, is a network.
Given == \A p \in Procs :
    /\ pc[p] \in {"setPool", "setHost"} => net[p] # NoNet
    /\ pc[p] \in {"setRange", "map", "setMap", "served"} =>
          net[p] = hostNet[HostOf[p]] /\ net[p] # NoNet

RaceInv == StableInv /\ Started /\ Roomy /\ Given

LEMMA UsedNat ==
    ASSUME IsFiniteSet(Hosts), TypeOK, TypeOK'
    PROVE  /\ IsFiniteSet(Takers) /\ Cardinality(Takers) \in 0..Cardinality(Hosts)
           /\ IsFiniteSet(Takers') /\ Cardinality(Takers') \in Nat
           /\ fails \in 0..MaxFails /\ fails' \in Nat
           /\ Used \in Nat /\ Used' \in Nat
  <1>1. Takers \in SUBSET Hosts /\ Takers' \in SUBSET Hosts
    BY DEF Takers
  <1>2. /\ IsFiniteSet(Takers) /\ Cardinality(Takers) <= Cardinality(Hosts)
        /\ IsFiniteSet(Takers')
    BY <1>1, FS_Subset
  <1>3. /\ Cardinality(Takers) \in Nat /\ Cardinality(Takers') \in Nat
        /\ Cardinality(Hosts) \in Nat
    BY <1>2, FS_CardinalityType
  <1>4. fails \in 0..MaxFails /\ fails' \in 0..MaxFails /\ MaxFails \in Nat
    BY SubnetPoolAssumption DEF TypeOK
  <1> QED
    BY <1>2, <1>3, <1>4 DEF Used

\* With networks enough the pool that a process reads is not empty.
LEMMA RoomMeansMore ==
    ASSUME Ample, TypeOK, TypeOK', RoomIn(pool)
    PROVE  pool # {}
  <1>1. Cardinality(Nets) \in Nat /\ Cardinality(Hosts) \in Nat /\ MaxFails \in Nat
    BY SubnetPoolAssumption, FS_CardinalityType DEF Ample
  <1>2. Cardinality(Takers) \in 0..Cardinality(Hosts) /\ fails \in 0..MaxFails
    BY UsedNat DEF Ample
  <1>3. pool = {} => Cardinality(pool) = 0
    BY FS_EmptySet
  <1> QED
    BY <1>1, <1>2, <1>3 DEF RoomIn, Used, Ample

LEMMA RaceInit == Init => RaceInv
  <1> SUFFICES ASSUME Init PROVE Started /\ Roomy /\ Given
    BY StableInit DEF RaceInv
  <1> QED
    BY DEF Init, Started, Roomy, Given

\* A step frees no node of what it has taken, but for a death, which is counted.
LEMMA UsedGrows ==
    ASSUME IsFiniteSet(Hosts), RaceInv, TypeOK', NEW p \in Procs,
           Start(p) \/ Step(p) \/ Fail(p)
    PROVE  Used' >= Used
  <1>t. /\ TypeOK /\ Undecided /\ Given
        /\ pc \in [Procs -> Resting \cup Steps] /\ hostNet \in [Hosts -> MaybeNet]
        /\ HostOf \in [Procs -> Hosts]
    BY SubnetPoolAssumption DEF RaceInv, StableInv, TypeOK
  <1>n. /\ IsFiniteSet(Takers) /\ Cardinality(Takers) \in Nat
        /\ IsFiniteSet(Takers') /\ Cardinality(Takers') \in Nat
        /\ fails \in Nat /\ fails' \in Nat
    BY <1>t, UsedNat
  <1>1. CASE Fail(p)
    <2>1. Takers \subseteq Takers' \cup {HostOf[p]} /\ fails' = fails + 1
      BY <1>1, <1>t DEF Fail, Takers, Goto, etcdVars
    <2>2. /\ IsFiniteSet(Takers' \cup {HostOf[p]})
          /\ Cardinality(Takers' \cup {HostOf[p]})
                 \in {Cardinality(Takers'), Cardinality(Takers') + 1}
      BY <1>n, FS_AddElement
    <2>3. Cardinality(Takers) <= Cardinality(Takers' \cup {HostOf[p]})
      BY <2>1, <2>2, FS_Subset
    <2> QED
      BY <1>n, <2>1, <2>2, <2>3 DEF Used
  <1>2. CASE ~ Fail(p)
    <2>1. fails' = fails
      BY <1>2, NextCases DEF Start, PoolGet, PoolFill, NetGet, Take, PoolSet, HostSet,
                             RangeSet, MapGet, MapSet
    <2>2. Takers \subseteq Takers'
      <3>1. CASE HostSet(p)
        <4>1. /\ hostNet' = [hostNet EXCEPT ![HostOf[p]] = net[p]]
              /\ net[p] # NoNet
              /\ \A q \in Procs : q # p => pc'[q] = pc[q]
          BY <3>1, <1>t DEF HostSet, Goto, Given
        <4> QED
          BY <1>t, <4>1 DEF Takers
      <3>2. CASE ~ HostSet(p)
        <4>1. hostNet' = hostNet
          BY <1>2, <3>2, NextCases DEF Start, PoolGet, PoolFill, NetGet, Take, PoolSet,
             RangeSet, MapGet, MapSet, etcdVars
        <4>2. \A q \in Procs : pc[q] \in {"setPool", "setHost"} =>
                                   pc'[q] \in {"setPool", "setHost"}
          BY <1>2, <1>t, <3>2, NextCases DEF Start, PoolGet, PoolFill, NetGet, Take,
             PoolSet, RangeSet, MapGet, MapSet, Goto, Busy, Resting
        <4> QED
          BY <4>1, <4>2 DEF Takers
      <3> QED
        BY <3>1, <3>2
    <2>3. Cardinality(Takers) <= Cardinality(Takers')
      BY <1>n, <2>2, FS_Subset
    <2> QED
      BY <1>n, <2>1, <2>3 DEF Used
  <1> QED
    BY <1>1, <1>2

\* The node that takes a network has not taken one before.
LEMMA TakeUses ==
    ASSUME IsFiniteSet(Hosts), RaceInv, TypeOK', NEW p \in Procs, Take(p)
    PROVE  Used' = Used + 1
  <1>t. /\ TypeOK /\ pc \in [Procs -> Resting \cup Steps] /\ HostOf \in [Procs -> Hosts]
    BY SubnetPoolAssumption DEF RaceInv, StableInv, TypeOK
  <1>1. pc[p] = "take" /\ UNCHANGED <<hostNet, fails>> /\ pc' = [pc EXCEPT ![p] = "setPool"]
    BY DEF Take, Goto, etcdVars
  <1>2. HostOf[p] \notin Takers
    <2>1. hostNet[HostOf[p]] = NoNet
      BY <1>1 DEF RaceInv, StableInv, Undecided
    <2>2. \A q \in Procs : HostOf[q] = HostOf[p] /\ q # p => pc[q] \in Resting
      BY <1>1 DEF RaceInv, StableInv, NodeExclusive, Busy, Resting
    <2> QED
      BY <1>1, <2>1, <2>2 DEF Takers, Resting
  <1>3. Takers' = Takers \cup {HostOf[p]}
    BY <1>t, <1>1 DEF Takers
  <1>4. IsFiniteSet(Takers) /\ Cardinality(Takers) \in Nat /\ fails \in Nat
    BY <1>t, UsedNat
  <1>5. Cardinality(Takers') = Cardinality(Takers) + 1
    BY <1>2, <1>3, <1>4, FS_AddElement
  <1> QED
    BY <1>1, <1>4, <1>5 DEF Used

\* What is left is enough still when more has been used.
LEMMA RoomKept ==
    ASSUME NEW s \in SUBSET Nets, RoomIn(s), Used \in Nat, Used' \in Nat, Used' >= Used
    PROVE  Cardinality(Nets) <= Cardinality(s) + Used'
  <1>1. Cardinality(s) \in Nat /\ Cardinality(Nets) \in Nat
    BY SubnetPoolAssumption, FS_Subset, FS_CardinalityType
  <1> QED
    BY <1>1 DEF RoomIn

LEMMA RoomyStep ==
    ASSUME Ample, RaceInv, TypeOK', NEW p \in Procs, Start(p) \/ Step(p) \/ Fail(p)
    PROVE  Roomy'
  <1>t. /\ TypeOK /\ pool \in SUBSET Nets /\ rest \in [Procs -> SUBSET Nets]
        /\ pc \in [Procs -> Resting \cup Steps] /\ pool' \in SUBSET Nets
        /\ fills \in 0..2 /\ rest' \in [Procs -> SUBSET Nets]
    BY DEF RaceInv, StableInv, TypeOK
  <1>u. Used \in Nat /\ Used' \in Nat /\ Used' >= Used
    BY <1>t, UsedNat, UsedGrows DEF Ample
  <1>k. \A s \in SUBSET Nets :
            RoomIn(s) => Cardinality(Nets) <= Cardinality(s) + Used'
    BY <1>u, RoomKept
  <1>1. ASSUME fills' # 0 PROVE Cardinality(Nets) <= Cardinality(pool') + Used'
    <2>1. CASE PoolFill(p)
      <3>1. pool' = Nets /\ Cardinality(Nets) \in Nat
        BY <2>1, SubnetPoolAssumption, FS_CardinalityType DEF PoolFill
      <3> QED
        BY <1>u, <3>1
    <2>2. CASE PoolSet(p)
      BY <1>k, <1>t, <2>2 DEF PoolSet, RaceInv, Roomy
    <2>3. CASE ~ PoolFill(p) /\ ~ PoolSet(p)
      <3>1. pool' = pool /\ fills' = fills
        BY <2>3, NextCases DEF Start, NetGet, PoolGet, Take, HostSet, RangeSet, MapGet,
           MapSet, Fail, etcdVars
      <3> QED
        BY <1>1, <1>k, <1>t, <3>1 DEF RaceInv, Roomy
    <2> QED
      BY <2>1, <2>2, <2>3
  <1>2. ASSUME NEW q \in Procs, pc'[q] = "setPool"
        PROVE  Cardinality(Nets) <= Cardinality(rest'[q]) + Used'
    <2>1. CASE q = p
      <3>1. Take(p)
        BY <1>2, <1>t, <2>1, NextCases DEF Start, PoolGet, PoolFill, NetGet, PoolSet,
           HostSet, RangeSet, MapGet, MapSet, Fail, Goto
      <3>2. fills # 0 /\ RoomIn(pool)
        BY <3>1 DEF Take, RaceInv, Started, Roomy
      <3>3. pool # {}
        BY <1>t, <3>2, RoomMeansMore
      <3> PICK n \in pool : rest'[p] = pool \ {n}
        BY <1>t, <3>1, <3>3 DEF Take, Pick
      <3>4. Used' = Used + 1
        BY <1>t, <3>1, TakeUses DEF Ample
      <3>5. /\ IsFiniteSet(pool) /\ Cardinality(pool) \in Nat
            /\ Cardinality(pool \ {n}) = Cardinality(pool) - 1
        BY <1>t, SubnetPoolAssumption, FS_Subset, FS_CardinalityType, FS_RemoveElement
      <3>6. Cardinality(Nets) \in Nat
        BY SubnetPoolAssumption, FS_CardinalityType
      <3> QED
        <4>1. Cardinality(Nets) <= Cardinality(pool) + Used
          BY <3>2 DEF RoomIn
        <4>2. rest'[q] = pool \ {n}
          BY <2>1
        <4> QED
          BY <1>u, <3>4, <3>5, <3>6, <4>1, <4>2
    <2>2. CASE q # p
      <3>1. pc[q] = "setPool" /\ rest'[q] = rest[q]
        BY <1>2, <1>t, <2>2, NextCases DEF Start, PoolGet, PoolFill, NetGet, Take, Pick,
           PoolSet, HostSet, RangeSet, MapGet, MapSet, Fail, Goto
      <3> QED
        BY <1>k, <1>t, <3>1 DEF RaceInv, Roomy
    <2> QED
      BY <2>1, <2>2
  <1> QED
    BY <1>1, <1>2 DEF Roomy, RoomIn

LEMMA StartedStep ==
    ASSUME RaceInv, TypeOK', NEW p \in Procs, Start(p) \/ Step(p) \/ Fail(p)
    PROVE  Started'
  <1>1. CASE PoolFill(p)
    BY <1>1 DEF PoolFill, Started, RaceInv, StableInv, TypeOK
  <1>2. CASE ~ PoolFill(p)
    <2>1. fills' = fills
      BY <1>2, NextCases DEF Start, PoolGet, NetGet, Take, PoolSet, HostSet, RangeSet,
         MapGet, MapSet, Fail
    <2>2. ASSUME fills = 0
          PROVE  /\ pool' = {}
                 /\ \A q \in Procs : pc'[q] \in {"idle", "pool", "fill"}
      <3>1. pool = {} /\ \A q \in Procs : pc[q] \in {"idle", "pool", "fill"}
        BY <2>2 DEF RaceInv, Started
      <3> QED
        BY <1>2, <3>1, NextCases DEF RaceInv, StableInv, TypeOK, Start, PoolGet, NetGet,
           Take, PoolSet, HostSet, RangeSet, MapGet, MapSet, Fail, Goto, etcdVars
    <2> QED
      BY <2>1, <2>2 DEF Started
  <1> QED
    BY <1>1, <1>2

LEMMA GivenStep ==
    ASSUME OnePerNode, Ample, RaceInv, TypeOK',
           NEW p \in Procs, Start(p) \/ Step(p) \/ Fail(p)
    PROVE  Given'
  <1>t. /\ pc \in [Procs -> Resting \cup Steps] /\ net \in [Procs -> MaybeNet]
        /\ hostNet \in [Hosts -> MaybeNet] /\ HostOf \in [Procs -> Hosts]
        /\ pool \subseteq Nets /\ Given /\ TypeOK
    BY SubnetPoolAssumption DEF RaceInv, StableInv, TypeOK
  <1>s. \A h \in Hosts : hostNet[h] # NoNet => hostNet'[h] = hostNet[h]
    BY StableAction DEF RaceInv, Next
  <1>o. ASSUME NEW q \in Procs, q # p
        PROVE  pc'[q] = pc[q] /\ net'[q] = net[q]
    BY <1>t, <1>o, NextCases DEF Start, PoolGet, PoolFill, NetGet, Take, Pick, PoolSet,
       HostSet, RangeSet, MapGet, MapSet, Fail, Goto
  <1> USE <1>t DEF Goto, etcdVars
  <1>1. ASSUME pc'[p] \in {"setPool", "setHost"} PROVE net'[p] # NoNet
    <2>1. CASE Take(p)
      <3>1. fills # 0 /\ RoomIn(pool)
        BY <2>1 DEF Take, RaceInv, Started, Roomy
      <3>2. pool # {}
        BY <3>1, RoomMeansMore
      <3> QED
        BY <2>1, <3>2, SubnetPoolAssumption DEF Take, Pick
    <2>2. CASE PoolSet(p)
      BY <2>2 DEF PoolSet, Given
    <2>3. CASE ~ Take(p) /\ ~ PoolSet(p)
      BY <1>1, <2>3, NextCases DEF Start, PoolGet, PoolFill, NetGet, HostSet, RangeSet,
         MapGet, MapSet, Fail
    <2> QED
      BY <2>1, <2>2, <2>3
  <1>2. ASSUME pc'[p] \in {"setRange", "map", "setMap", "served"}
        PROVE  net'[p] = hostNet'[HostOf[p]] /\ net'[p] # NoNet
    <2>1. CASE NetGet(p)
      BY <1>2, <2>1 DEF NetGet
    <2>2. CASE HostSet(p)
      BY <2>2 DEF HostSet, Given
    <2>3. CASE RangeSet(p) \/ MapGet(p) \/ MapSet(p)
      BY <2>3 DEF RangeSet, MapGet, MapSet, Given
    <2>4. CASE \/ Start(p) \/ PoolGet(p) \/ PoolFill(p) \/ Take(p) \/ PoolSet(p) \/ Fail(p)
      BY <1>2, <2>4 DEF Start, PoolGet, PoolFill, Take, PoolSet, Fail
    <2> QED
      BY <2>1, <2>2, <2>3, <2>4, NextCases
  <1> QED
    BY <1>s, <1>o, <1>1, <1>2 DEF Given

LEMMA RaceStep ==
    ASSUME OnePerNode, Ample
    PROVE  RaceInv /\ [Next]_vars => RaceInv'
  <1> SUFFICES ASSUME RaceInv, [Next]_vars PROVE RaceInv'
    OBVIOUS
  <1>t. StableInv' /\ TypeOK'
    BY StableStep DEF RaceInv, StableInv
  <1>1. CASE UNCHANGED vars
    BY <1>t, <1>1 DEF vars, RaceInv, Started, Roomy, Given, RoomIn, Used, Takers
  <1>2. CASE Next
    BY <1>t, <1>2, StartedStep, RoomyStep, GivenStep DEF Next, RaceInv
  <1> QED
    BY <1>1, <1>2

\* What the service returns to a node is a network, and the node's.
ServedHasNetwork ==
    \A p \in Procs : pc[p] = "served" => net[p] # NoNet /\ net[p] = hostNet[HostOf[p]]

\* However the initialisations of different nodes race, overwrite each other's pool
\* and die half way, and though two nodes can then share a network: with networks
\* enough the pool never runs out, networkInit never picks the empty name out of an
\* empty pool (ipam.go:334-337), and every node is served a network, its own.
THEOREM NobodyServedWithout ==
    ASSUME OnePerNode, Ample
    PROVE  Spec => [](ServedHasNetwork /\ (fills # 0 => pool # {}))
  <1>1. RaceInv /\ TypeOK' => ServedHasNetwork /\ (fills # 0 => pool # {})
    BY RoomMeansMore DEF RaceInv, StableInv, Roomy, Given, ServedHasNetwork
  <1> QED
    BY <1>1, RaceInit, RaceStep, TypeCorrect, PTL DEF Spec

-----------------------------------------------------------------------------
(***************************************************************************)
(* The maps key when updates get lost.                                     *)
(***************************************************************************)

\* Each entry of a value of the maps key leads to a node that has the network.
Truthful(m) == \A n \in MaybeNet : m[n] # NoHost => n # NoNet /\ hostNet[m[n]] = n

MapsTellTruth ==
    Truthful(maps) /\ \A p \in Procs : pc[p] = "setMap" => Truthful(mapsSeen[p])

\* A network has an entry, and nobody is about to write the key without it.
Entered(n) ==
    /\ maps[n] # NoHost
    /\ \A p \in Procs : pc[p] = "setMap" => mapsSeen[p][n] # NoHost \/ net[p] = n

EntriesStay == \A n \in MaybeNet : Entered(n) => Entered(n)'

LEMMA TruthStep ==
    ASSUME RaceInv, RaceInv', MapsTellTruth, [Next]_vars
    PROVE  MapsTellTruth'
  <1>t. /\ pc \in [Procs -> Resting \cup Steps] /\ net \in [Procs -> MaybeNet]
        /\ hostNet \in [Hosts -> MaybeNet] /\ HostOf \in [Procs -> Hosts]
        /\ maps \in [MaybeNet -> Hosts \cup {NoHost}] /\ NoHost \notin Hosts
        /\ mapsSeen \in [Procs -> [MaybeNet -> Hosts \cup {NoHost}]]
    BY SubnetPoolAssumption DEF RaceInv, StableInv, TypeOK
  <1>s. \A h \in Hosts : hostNet[h] # NoNet => hostNet'[h] = hostNet[h]
    BY StableAction DEF RaceInv
  <1>1. ASSUME NEW m \in [MaybeNet -> Hosts \cup {NoHost}], Truthful(m)
        PROVE  \A n \in MaybeNet : m[n] # NoHost => n # NoNet /\ hostNet'[m[n]] = n
    BY <1>t, <1>s, <1>1 DEF Truthful
  <1>2. /\ \A n \in MaybeNet : maps[n] # NoHost => n # NoNet /\ hostNet'[maps[n]] = n
        /\ \A q \in Procs : pc[q] = "setMap" => \A n \in MaybeNet :
              mapsSeen[q][n] # NoHost => n # NoNet /\ hostNet'[mapsSeen[q][n]] = n
    BY <1>1, <1>t DEF MapsTellTruth
  <1>u. CASE UNCHANGED vars
    BY <1>u DEF vars, MapsTellTruth, Truthful
  <1>n. CASE Next
    <2> PICK p \in Procs : Start(p) \/ Step(p) \/ Fail(p)
      BY <1>n DEF Next
    <2> USE <1>t DEF Goto, etcdVars
    <2>1. CASE MapGet(p)
      <3>1. maps' = maps /\ \A q \in Procs :
                pc'[q] = "setMap" => mapsSeen'[q] = maps
                                     \/ (pc[q] = "setMap" /\ mapsSeen'[q] = mapsSeen[q])
        BY <2>1 DEF MapGet
      <3> QED
        BY <1>2, <3>1 DEF MapsTellTruth, Truthful
    <2>2. CASE MapSet(p)
      <3>1. /\ maps' = [mapsSeen[p] EXCEPT ![net[p]] = HostOf[p]]
            /\ \A q \in Procs : pc'[q] = "setMap" =>
                   pc[q] = "setMap" /\ mapsSeen'[q] = mapsSeen[q]
            /\ hostNet' = hostNet /\ pc[p] = "setMap"
        BY <2>2 DEF MapSet
      <3>2. net[p] = hostNet[HostOf[p]] /\ net[p] # NoNet
        BY <3>1 DEF RaceInv, Given
      <3>3. Truthful(maps)'
        BY <3>1, <3>2 DEF MapsTellTruth, Truthful
      <3> QED
        BY <1>2, <3>1, <3>3 DEF MapsTellTruth, Truthful
    <2>3. CASE ~ MapGet(p) /\ ~ MapSet(p)
      <3>1. maps' = maps /\ \A q \in Procs : pc'[q] = "setMap" =>
                pc[q] = "setMap" /\ mapsSeen'[q] = mapsSeen[q]
        BY <2>3, NextCases DEF Start, PoolGet, PoolFill, NetGet, Take, Pick, PoolSet,
           HostSet, RangeSet, Fail
      <3> QED
        BY <1>2, <3>1 DEF MapsTellTruth, Truthful
    <2> QED
      BY <2>1, <2>2, <2>3
  <1> QED
    BY <1>u, <1>n

LEMMA EntryStep ==
    ASSUME TypeOK, Next, NEW n \in MaybeNet, Entered(n)
    PROVE  Entered(n)'
  <1>t. /\ pc \in [Procs -> Resting \cup Steps] /\ net \in [Procs -> MaybeNet]
        /\ HostOf \in [Procs -> Hosts] /\ NoHost \notin Hosts
        /\ maps \in [MaybeNet -> Hosts \cup {NoHost}]
        /\ mapsSeen \in [Procs -> [MaybeNet -> Hosts \cup {NoHost}]]
    BY SubnetPoolAssumption DEF TypeOK
  <1> PICK p \in Procs : Start(p) \/ Step(p) \/ Fail(p)
    BY DEF Next
  <1> USE <1>t DEF Goto, etcdVars, Entered
  <1>1. CASE MapGet(p)
    BY <1>1 DEF MapGet
  <1>2. CASE MapSet(p)
    BY <1>2 DEF MapSet
  <1>3. CASE ~ MapGet(p) /\ ~ MapSet(p)
    <2>1. maps' = maps /\ \A q \in Procs : pc'[q] = "setMap" =>
              pc[q] = "setMap" /\ mapsSeen'[q] = mapsSeen[q] /\ net'[q] = net[q]
      BY <1>3, NextCases DEF Start, PoolGet, PoolFill, NetGet, Take, Pick, PoolSet,
         HostSet, RangeSet, Fail
    <2> QED
      BY <2>1
  <1> QED
    BY <1>1, <1>2, <1>3

\* However updates of the maps key are lost, and though nodes that race can share a
\* network: the key never leads from a network to a node that has another one or
\* none, and neither does a value that is yet to be written (ipam.go:413-437).
THEOREM MapsNeverWrong ==
    ASSUME OnePerNode, Ample
    PROVE  Spec => []MapsTellTruth
  <1>1. Init => MapsTellTruth
    BY NoMapsType DEF Init, MapsTellTruth, Truthful, NoMaps
  <1>2. RaceInv /\ RaceInv' /\ MapsTellTruth /\ [Next]_vars => MapsTellTruth'
    BY TruthStep
  <1> QED
    BY <1>1, <1>2, RaceInit, RaceStep, PTL DEF Spec

\* An update is lost only to a process that had read the key before it: an entry that
\* nobody is about to leave out is there for good, whatever overlaps and whatever
\* dies.  A node that finds its entry missing writes it again (ipam.go:413-437).
THEOREM EnteredForGood == Spec => [][EntriesStay]_vars
  <1>1. TypeOK /\ [Next]_vars => [EntriesStay]_vars
    BY EntryStep DEF EntriesStay
  <1> QED
    BY <1>1, InitType, StepType, PTL DEF Spec

-----------------------------------------------------------------------------
(***************************************************************************)
(* The addresses in the networks (AddressPlan, ClusterPlan).               *)
(***************************************************************************)
\* The octet that is shifted in last is the remainder, the ones before are the
\* quotient.
LEMMA ShiftIn ==
    ASSUME NEW x \in Nat, NEW k \in Octets
    PROVE  Shr(x * B + k) = x /\ (x * B + k) % B = k
  <1>1. B \in Nat /\ B >= 4 /\ k \in 0..(B - 1)
    BY AddressPlanAssumption DEF Octets
  <1> QED
    BY <1>1 DEF Shr

\* Adding to an address whose last octet is 0 what an octet can hold carries into no
\* other octet.
LEMMA NoCarry ==
    ASSUME NEW a \in IPs, a[4] = 0, NEW k \in Octets
    PROVE  InetInt2Ip(InetIpToUInt32(a) + k) = <<a[1], a[2], a[3], k>>
  <1> DEFINE x == (a[1] * B + a[2]) * B + a[3]
             y == a[1] * B + a[2]
  <1>1. /\ a[1] \in Octets /\ a[2] \in Octets /\ a[3] \in Octets
        /\ Octets \subseteq Nat /\ B \in Nat
        /\ 0 \in Octets
    BY AddressPlanAssumption DEF IPs, Octets
  <1>2. a[1] * B \in Nat /\ y \in Nat /\ y * B \in Nat /\ x \in Nat /\ x * B \in Nat
    <2>1. \A m, n \in Nat : m * n \in Nat /\ m + n \in Nat
      OBVIOUS
    <2>2. a[1] * B \in Nat /\ y \in Nat
      BY <1>1, <2>1
    <2> HIDE DEF y
    <2>3. y * B \in Nat /\ y * B + a[3] \in Nat
      BY <1>1, <2>1, <2>2
    <2>4. x = y * B + a[3]
      BY DEF x, y
    <2> HIDE DEF x
    <2> QED
      BY <1>1, <2>1, <2>2, <2>3, <2>4
  <1>3. InetIpToUInt32(a) + k = x * B + k
    <2>1. k \in Nat
      BY <1>1
    <2> HIDE DEF x
    <2>2. InetIpToUInt32(a) = x * B + 0
      BY DEF InetIpToUInt32, x
    <2> QED
      BY <1>2, <2>1, <2>2
  <1> HIDE DEF x, y
  <1>4. Shr(x * B + k) = x /\ (x * B + k) % B = k
    BY <1>2, ShiftIn
  <1>5. Shr(x) = y /\ x % B = a[3]
    <2>1. x = y * B + a[3]
      BY DEF x, y
    <2> QED
      BY <1>1, <1>2, <2>1, ShiftIn
  <1>6. Shr(y) = a[1] /\ y % B = a[2]
    <2>1. y = a[1] * B + a[2]
      BY DEF y
    <2> QED
      BY <1>1, <2>1, ShiftIn
  <1>7. a[1] % B = a[1]
    BY <1>1, AddressPlanAssumption DEF Octets
  <1> QED
    BY <1>3, <1>4, <1>5, <1>6, <1>7 DEF InetInt2Ip

\* A network that ends in 0: its gateway ends in 1, and what is drawn from it ends in
\* 3 or more, which is what PodAddresses draws from (Candidates).
LEMMA DrawnOctets ==
    ASSUME NEW a \in IPs, a[4] = 0
    PROVE  /\ GatewayOf(a) = <<a[1], a[2], a[3], 1>>
           /\ Drawn(a) = {<<a[1], a[2], a[3], k>> : k \in 3..(B - 2)}
  <1>1. 1 \in Octets
    BY AddressPlanAssumption DEF Octets
  <1>2. GatewayOf(a) = <<a[1], a[2], a[3], 1>>
    BY <1>1, NoCarry DEF GatewayOf
  <1>3. InetIpToUInt32(a) \in Nat /\ InetIpToUInt32(GatewayOf(a)) = InetIpToUInt32(a) + 1
    <2>1. /\ a[1] \in Nat /\ a[2] \in Nat /\ a[3] \in Nat /\ B \in Nat
      BY AddressPlanAssumption DEF IPs, Octets
    <2> DEFINE x == ((a[1] * B + a[2]) * B + a[3]) * B
    <2>2. x \in Nat
      BY <2>1
    <2>3. InetIpToUInt32(a) = x + 0 /\ InetIpToUInt32(GatewayOf(a)) = x + 1
      BY <1>2 DEF InetIpToUInt32
    <2> QED
      BY <2>2, <2>3
  <1>4. ASSUME NEW n \in 2..(B - 3)
        PROVE  InetInt2Ip(InetIpToUInt32(GatewayOf(a)) + n) = <<a[1], a[2], a[3], n + 1>>
    <2>1. n + 1 \in Octets /\ n \in Nat
      BY AddressPlanAssumption DEF Octets
    <2>2. InetIpToUInt32(GatewayOf(a)) + n = InetIpToUInt32(a) + (n + 1)
      BY <1>3, <2>1
    <2> QED
      BY <2>1, <2>2, NoCarry
  <1>5. Drawn(a) = {<<a[1], a[2], a[3], n + 1>> : n \in 2..(B - 3)}
    BY <1>4 DEF Drawn
  <1>6. \A k \in 3..(B - 2) : k - 1 \in 2..(B - 3) /\ (k - 1) + 1 = k
    BY AddressPlanAssumption
  <1>7. \A n \in 2..(B - 3) : n + 1 \in 3..(B - 2)
    BY AddressPlanAssumption
  <1> QED
    BY <1>2, <1>5, <1>6, <1>7

\* A subnet cut down to what its mask keeps is an address.
LEMMA MaskedIsAddress ==
    ASSUME NEW a \in IPs, NEW mask
    PROVE  Masked(a, mask) \in IPs
  <1>1. 0 \in Octets
    BY AddressPlanAssumption DEF Octets
  <1>2. a[1] \in Octets /\ a[2] \in Octets /\ a[3] \in Octets /\ a[4] \in Octets
    BY DEF IPs
  <1>3. ASSUME NEW kept, NEW b \in Octets PROVE (IF kept THEN b ELSE 0) \in Octets
    BY <1>1
  <1>4. \A i, j, k, l \in Octets : <<i, j, k, l>> \in IPs
    BY DEF IPs
  <1> QED
    BY <1>2, <1>3, <1>4 DEF Masked

\* A network of the plan is an address that ends in 0 as its subnet does.
LEMMA NetworkEndsInZero ==
    ASSUME NEW s \in IPs, s[4] = 0, FirstZero(s) < 4, NEW n \in Networks(s)
    PROVE  n \in IPs /\ n[4] = 0
  <1> PICK k \in Octets : n = [s EXCEPT ![FirstZero(s)] = k]
    BY DEF Networks, Network
  <1> QED
    BY DEF IPs

\* Two networks differ before the last octet, so that their addresses do.
LEMMA NetworksApart ==
    ASSUME NEW a \in IPs, NEW b \in IPs, a[4] = 0, b[4] = 0, a # b
    PROVE  (Drawn(a) \cup {GatewayOf(a)}) \cap (Drawn(b) \cup {GatewayOf(b)}) = {}
  <1>1. <<a[1], a[2], a[3]>> # <<b[1], b[2], b[3]>>
    BY DEF IPs
  <1> QED
    BY <1>1, DrawnOctets

-----------------------------------------------------------------------------
\* With no range configured there is no range key.
LEMMA NoRanges ==
    ASSUME ~ Ranged
    PROVE  Spec => [](ranges = {} /\ \A p \in Procs : pc[p] # "setRange")
  <1> DEFINE J == ranges = {} /\ \A p \in Procs : pc[p] # "setRange"
  <1>1. Init => J
    BY DEF Init
  <1>2. TypeOK /\ J /\ [Next]_vars => J'
    <2> SUFFICES ASSUME TypeOK, J, [Next]_vars PROVE J'
      OBVIOUS
    <2> USE DEF TypeOK, Goto, etcdVars
    <2>1. CASE UNCHANGED vars
      BY <2>1 DEF vars
    <2>2. CASE Next
      <3> PICK p \in Procs : Start(p) \/ Step(p) \/ Fail(p)
        BY <2>2 DEF Next
      <3> QED
        BY DEF Start, Fail, Step, PoolGet, PoolFill, NetGet, Take, PoolSet, HostSet,
               RangeSet, MapGet, MapSet
    <2> QED
      BY <2>1, <2>2
  <1> QED
    BY <1>1, <1>2, TypeCorrect, PTL DEF Spec

\* In a cluster of any size, for octets of any number of values, and whatever dies
\* half way: when initialisations do not overlap, and as long as the pool was filled
\* once, no address is on offer at two nodes (ipam.go:446-483, 766-785).
THEOREM AddressesApart ==
    ASSUME Overlap = {}
    PROVE  Spec => []AddressesDisjoint
  <1>1. ASSUME OncePerFill, TypeOK, ranges = {}, ~ Ranged PROVE AddressesDisjoint
    <2> SUFFICES ASSUME NEW g \in Hosts, NEW h \in Hosts, fills <= 1, g # h,
                        hostNet[g] # NoNet, hostNet[h] # NoNet
                 PROVE  (AddressesOf(g) \cup {GatewayOf(hostNet[g])})
                          \cap (AddressesOf(h) \cup {GatewayOf(hostNet[h])}) = {}
      BY DEF AddressesDisjoint
    <2>1. hostNet[g] # hostNet[h]
      BY <1>1 DEF OncePerFill, NetworksDistinct
    <2>2. hostNet[g] \in Nets /\ hostNet[h] \in Nets
      BY <1>1 DEF TypeOK, MaybeNet
    <2>3. Masked(Subnet, Mask) \in IPs
      BY ClusterPlanAssumption, MaskedIsAddress
    <2>4. \A n \in Nets : n \in IPs /\ n[4] = 0
      BY <2>3, ClusterPlanAssumption, NetworkEndsInZero
    <2>5. AddressesOf(g) = Drawn(hostNet[g]) /\ AddressesOf(h) = Drawn(hostNet[h])
      BY <1>1 DEF AddressesOf
    <2> QED
      BY <2>1, <2>2, <2>4, <2>5, NetworksApart
  <1>2. CASE Ranged
    <2>1. AddressesDisjoint
      BY <1>2 DEF AddressesDisjoint
    <2> QED
      BY <2>1, PTL
  <1>3. CASE ~ Ranged
    <2>1. OncePerFill /\ TypeOK /\ ranges = {} => AddressesDisjoint
      BY <1>1, <1>3
    <2> QED
      BY <1>3, <2>1, NoRanges, NetworksOncePerFill, TypeCorrect, PTL
  <1> QED
    BY <1>2, <1>3

\* The same without the condition on the fills of the pool.
NoAddressTwice ==
    \A g, h \in Hosts :
        g # h /\ hostNet[g] # NoNet /\ hostNet[h] # NoNet
        => (AddressesOf(g) \cup {GatewayOf(hostNet[g])})
               \cap (AddressesOf(h) \cup {GatewayOf(hostNet[h])}) = {}

\* With a network for every node and for every initialisation that dies, no range
\* and no overlap, no address is ever on offer at two nodes: the pool is filled
\* once only, however long the cluster runs.
THEOREM AddressesApartForEver ==
    ASSUME Overlap = {}, Ample, ~ Ranged
    PROVE  Spec => []NoAddressTwice
  <1>1. AddressesDisjoint /\ OnceFilledInv => NoAddressTwice
    BY DEF AddressesDisjoint, OnceFilledInv, NoAddressTwice
  <1> QED
    BY <1>1, AddressesApart, OnceFilledAlways, PTL

-----------------------------------------------------------------------------
\* A number is its quotient and its remainder, and the remainder is an octet.
LEMMA ShiftOut ==
    ASSUME NEW n \in Nat
    PROVE  /\ Shr(n) \in Nat /\ n % B \in Octets
           /\ n = Shr(n) * B + (n % B)
  BY AddressPlanAssumption DEF Shr, Octets

\* Numbers are in the order of their quotients, and of their remainders when those
\* are equal.
LEMMA ShiftOrder ==
    ASSUME NEW m \in Nat, NEW n \in Nat
    PROVE  m < n <=> \/ Shr(m) < Shr(n)
                     \/ Shr(m) = Shr(n) /\ m % B < n % B
  <1> DEFINE p == Shr(m)
             q == Shr(n)
             k == m % B
             l == n % B
  <1>1. /\ p \in Nat /\ q \in Nat /\ B \in Nat
        /\ k \in 0..(B - 1) /\ l \in 0..(B - 1)
        /\ m = p * B + k /\ n = q * B + l
    BY ShiftOut, AddressPlanAssumption DEF Octets
  <1> HIDE DEF p, q, k, l
  <1>2. ASSUME NEW u \in Nat, NEW v \in Nat, u < v PROVE u * B + B <= v * B
    <2>1. PICK d \in Nat : v = u + 1 + d
      <3>1. v - u - 1 \in Nat /\ v = u + 1 + (v - u - 1)
        BY <1>2
      <3> QED
        BY <3>1
    <2>2. v * B = u * B + B + d * B /\ d * B \in Nat /\ u * B \in Nat
      BY <1>1, <2>1
    <2> QED
      BY <1>1, <2>2
  <1>3. p * B \in Nat /\ q * B \in Nat
    BY <1>1
  <1>4. CASE p < q
    <2>1. p * B + B <= q * B
      BY <1>1, <1>2, <1>4
    <2> QED
      BY <1>1, <1>3, <1>4, <2>1 DEF p, q
  <1>5. CASE q < p
    <2>1. q * B + B <= p * B
      BY <1>1, <1>2, <1>5
    <2> QED
      BY <1>1, <1>3, <1>5, <2>1 DEF p, q
  <1>6. CASE p = q
    BY <1>1, <1>3, <1>6 DEF p, q, k, l
  <1> QED
    BY <1>1, <1>4, <1>5, <1>6

\* The octets of an address come back from its number.
LEMMA ThereAndBack ==
    ASSUME NEW a \in IPs
    PROVE  /\ InetIpToUInt32(a) \in Nat
           /\ InetIpToUInt32(a) % B = a[4]
           /\ Shr(InetIpToUInt32(a)) % B = a[3]
           /\ Shr(Shr(InetIpToUInt32(a))) % B = a[2]
           /\ Shr(Shr(Shr(InetIpToUInt32(a)))) = a[1]
           /\ InetInt2Ip(InetIpToUInt32(a)) = a
  <1> DEFINE y == a[1] * B + a[2]
             x == y * B + a[3]
             w == x * B + a[4]
  <1>1. /\ a[1] \in Octets /\ a[2] \in Octets /\ a[3] \in Octets /\ a[4] \in Octets
        /\ a = <<a[1], a[2], a[3], a[4]>>
        /\ Octets \subseteq Nat /\ B \in Nat
    BY AddressPlanAssumption DEF IPs, Octets
  <1>2. \A u, v, k \in Nat : u * v + k \in Nat
    OBVIOUS
  <1>3. y \in Nat /\ Shr(y) = a[1] /\ y % B = a[2]
    BY <1>1, <1>2, ShiftIn
  <1> HIDE DEF y
  <1>4. x \in Nat /\ Shr(x) = y /\ x % B = a[3]
    BY <1>1, <1>2, <1>3, ShiftIn
  <1> HIDE DEF x
  <1>5. w \in Nat /\ Shr(w) = x /\ w % B = a[4]
    BY <1>1, <1>2, <1>4, ShiftIn
  <1>6. InetIpToUInt32(a) = w
    BY DEF InetIpToUInt32, w, x, y
  <1>7. a[1] % B = a[1]
    BY <1>1, AddressPlanAssumption DEF Octets
  <1> HIDE DEF w
  <1> QED
    BY <1>1, <1>3, <1>4, <1>5, <1>6, <1>7 DEF InetInt2Ip

\* A number that is no greater than that of some address has an address, whose
\* number it is.
LEMMA BackAndThere ==
    ASSUME NEW e \in IPs, NEW n \in Nat, n <= InetIpToUInt32(e)
    PROVE  InetInt2Ip(n) \in IPs /\ InetIpToUInt32(InetInt2Ip(n)) = n
  <1> DEFINE x == Shr(n)
             y == Shr(x)
             z == Shr(y)
             N == InetIpToUInt32(e)
  <1>1. /\ x \in Nat /\ n % B \in Octets /\ n = x * B + (n % B)
        /\ y \in Nat /\ x % B \in Octets /\ x = y * B + (x % B)
        /\ z \in Nat /\ y % B \in Octets /\ y = z * B + (y % B)
    BY ShiftOut
  <1>2. N \in Nat /\ Shr(N) \in Nat /\ Shr(Shr(N)) \in Nat /\ Shr(Shr(Shr(N))) = e[1]
    BY ThereAndBack, ShiftOut
  <1>3. \A u, v \in Nat : u <= v => Shr(u) <= Shr(v)
    <2> TAKE u \in Nat, v \in Nat
    <2> HAVE u <= v
    <2>1. Shr(u) \in Nat /\ Shr(v) \in Nat
      BY ShiftOut
    <2>2. ~ (Shr(v) < Shr(u))
      <3>1. ~ (v < u)
        OBVIOUS
      <3> QED
        BY <3>1, ShiftOrder
    <2> QED
      BY <2>1, <2>2
  <1>4. z <= e[1]
    <2>1. x <= Shr(N)
      BY <1>2, <1>3
    <2>2. y <= Shr(Shr(N))
      BY <1>1, <1>2, <1>3, <2>1
    <2> QED
      BY <1>1, <1>2, <1>3, <2>2
  <1>5. z \in Octets /\ z % B = z
    <2>1. e[1] \in 0..(B - 1) /\ B \in Nat /\ B >= 4
      BY AddressPlanAssumption DEF IPs, Octets
    <2>2. z \in Nat
      BY <1>1
    <2> HIDE DEF z
    <2>3. z \in 0..(B - 1)
      BY <1>4, <2>1, <2>2
    <2>4. z % B = z
      BY <2>1, <2>3
    <2> QED
      BY <2>3, <2>4 DEF Octets
  <1> DEFINE a == InetInt2Ip(n)
  <1>6. a = <<z, y % B, x % B, n % B>>
    BY <1>5 DEF InetInt2Ip
  <1> HIDE DEF x, y, z
  <1>7. a \in IPs
    BY <1>1, <1>5, <1>6 DEF IPs
  <1>8. InetIpToUInt32(a) = ((z * B + (y % B)) * B + (x % B)) * B + (n % B)
    <2>1. a[1] = z /\ a[2] = y % B /\ a[3] = x % B /\ a[4] = n % B
      BY <1>6
    <2> HIDE DEF a
    <2> QED
      BY <2>1 DEF InetIpToUInt32
  <1> QED
    BY <1>1, <1>7, <1>8

\* Addresses are in the order of their numbers.
LEMMA OrderOfNumbers ==
    ASSUME NEW a \in IPs, NEW b \in IPs
    PROVE  Precedes(a, b) <=> InetIpToUInt32(a) < InetIpToUInt32(b)
  <1> DEFINE Lex == \/ a[1] < b[1]
                    \/ a[1] = b[1] /\ a[2] < b[2]
                    \/ a[1] = b[1] /\ a[2] = b[2] /\ a[3] < b[3]
                    \/ a[1] = b[1] /\ a[2] = b[2] /\ a[3] = b[3] /\ a[4] < b[4]
             m == InetIpToUInt32(a)
             n == InetIpToUInt32(b)
  <1>1. Precedes(a, b) <=> Lex
    <2>1. ASSUME Precedes(a, b) PROVE Lex
      <3> PICK i \in 1..4 : a[i] < b[i] /\ \A j \in 1..4 : j < i => a[j] = b[j]
        BY <2>1 DEF Precedes
      <3> QED
        OBVIOUS
    <2>2. ASSUME Lex PROVE Precedes(a, b)
      <3>1. CASE a[1] < b[1]
        BY <3>1 DEF Precedes
      <3>2. CASE a[1] = b[1] /\ a[2] < b[2]
        BY <3>2 DEF Precedes
      <3>3. CASE a[1] = b[1] /\ a[2] = b[2] /\ a[3] < b[3]
        BY <3>3 DEF Precedes
      <3>4. CASE a[1] = b[1] /\ a[2] = b[2] /\ a[3] = b[3] /\ a[4] < b[4]
        BY <3>4 DEF Precedes
      <3> QED
        BY <2>2, <3>1, <3>2, <3>3, <3>4
    <2> QED
      BY <2>1, <2>2
  <1>2. /\ m \in Nat /\ Shr(m) \in Nat /\ Shr(Shr(m)) \in Nat
        /\ n \in Nat /\ Shr(n) \in Nat /\ Shr(Shr(n)) \in Nat
    BY ThereAndBack, ShiftOut
  <1>3. /\ m % B = a[4] /\ Shr(m) % B = a[3] /\ Shr(Shr(m)) % B = a[2]
        /\ Shr(Shr(Shr(m))) = a[1]
        /\ n % B = b[4] /\ Shr(n) % B = b[3] /\ Shr(Shr(n)) % B = b[2]
        /\ Shr(Shr(Shr(n))) = b[1]
    BY ThereAndBack
  <1> HIDE DEF m, n
  <1>4. m < n <=> Shr(m) < Shr(n) \/ (Shr(m) = Shr(n) /\ a[4] < b[4])
    BY <1>2, <1>3, ShiftOrder
  <1>5. Shr(m) < Shr(n)
          <=> Shr(Shr(m)) < Shr(Shr(n)) \/ (Shr(Shr(m)) = Shr(Shr(n)) /\ a[3] < b[3])
    BY <1>2, <1>3, ShiftOrder
  <1>6. Shr(Shr(m)) < Shr(Shr(n)) <=> a[1] < b[1] \/ (a[1] = b[1] /\ a[2] < b[2])
    BY <1>2, <1>3, ShiftOrder
  <1>7. ASSUME NEW u \in Nat, NEW v \in Nat
        PROVE  u = v <=> Shr(u) = Shr(v) /\ u % B = v % B
    <2>1. u = Shr(u) * B + (u % B) /\ v = Shr(v) * B + (v % B)
      BY ShiftOut
    <2> QED
      BY <2>1
  <1>8. Shr(m) = Shr(n) <=> a[1] = b[1] /\ a[2] = b[2] /\ a[3] = b[3]
    <2>1. Shr(m) = Shr(n) <=> Shr(Shr(m)) = Shr(Shr(n)) /\ a[3] = b[3]
      BY <1>2, <1>3, <1>7
    <2>2. Shr(Shr(m)) = Shr(Shr(n)) <=> a[1] = b[1] /\ a[2] = b[2]
      BY <1>2, <1>3, <1>7
    <2> QED
      BY <2>1, <2>2
  <1>9. Shr(Shr(m)) = Shr(Shr(n)) <=> a[1] = b[1] /\ a[2] = b[2]
    BY <1>2, <1>3, <1>7
  <1>10. m < n <=> Lex
    BY <1>4, <1>5, <1>6, <1>8, <1>9
  <1> QED
    BY <1>1, <1>10 DEF m, n

\* Whatever the range, however many octets it carries across: it names the addresses
\* from its start to its end, in their order.
LEMMA EveryRangeWhole ==
    ASSUME NEW s \in IPs, NEW e \in IPs
    PROVE  RangeWhole(s, e)
  <1> DEFINE m == InetIpToUInt32(s)
             n == InetIpToUInt32(e)
             r == GenIpRange(s, e)
  <1>1. m \in Nat /\ n \in Nat
    BY ThereAndBack
  <1>2. CASE m >= n
    <2>1. ~ Precedes(s, e)
      BY <1>1, <1>2, OrderOfNumbers
    <2>2. r = <<>>
      BY <1>2 DEF GenIpRange
    <2>3. DOMAIN r = {}
      BY <2>2
    <2> HIDE DEF r
    <2>4. {r[i] : i \in DOMAIN r} = {}
      BY <2>3
    <2> QED
      BY <2>1, <2>3, <2>4 DEF RangeWhole, r
  <1>3. CASE m < n
    <2>1. Precedes(s, e)
      BY <1>3, OrderOfNumbers
    <2>2. r = [i \in 1..(n - m + 1) |-> InetInt2Ip(m + i - 1)]
      BY <1>1, <1>3 DEF GenIpRange
    <2>3. DOMAIN r = 1..(n - m + 1) /\ \A i \in DOMAIN r : r[i] = InetInt2Ip(m + i - 1)
      BY <2>2
    <2> HIDE DEF r
    <2>4. ASSUME NEW i \in DOMAIN r
          PROVE  r[i] \in IPs /\ InetIpToUInt32(r[i]) = m + i - 1
      <3>1. m + i - 1 \in Nat /\ m + i - 1 <= n
        BY <1>1, <1>3, <2>3
      <3> QED
        BY <2>3, <3>1, BackAndThere
    <2> HIDE DEF m, n
    <2>5. ASSUME NEW i \in DOMAIN r
          PROVE  r[i] \in {s, e} \cup {a \in IPs : Precedes(s, a) /\ Precedes(a, e)}
      <3>1. m + i - 1 \in m..n
        BY <1>1, <1>3, <2>3
      <3>2. CASE m + i - 1 = m
        BY <2>3, <3>2, ThereAndBack DEF m
      <3>3. CASE m + i - 1 = n
        BY <2>3, <3>3, ThereAndBack DEF n
      <3>4. CASE m < m + i - 1 /\ m + i - 1 < n
        BY <2>4, <3>4, OrderOfNumbers DEF m, n
      <3>5. \/ m + i - 1 = m
            \/ m + i - 1 = n
            \/ m < m + i - 1 /\ m + i - 1 < n
        BY <1>1, <3>1
      <3> QED
        BY <3>2, <3>3, <3>4, <3>5
    <2>6. ASSUME NEW a \in {s, e} \cup {c \in IPs : Precedes(s, c) /\ Precedes(c, e)}
          PROVE  \E i \in DOMAIN r : r[i] = a
      <3> DEFINE k == InetIpToUInt32(a)
      <3>1. a \in IPs /\ k \in Nat /\ InetInt2Ip(k) = a
        BY ThereAndBack
      <3>2. k \in m..n
        <4>1. CASE a \in {s, e}
          BY <1>1, <1>3, <4>1 DEF m, n
        <4>2. CASE Precedes(s, a) /\ Precedes(a, e)
          BY <1>1, <3>1, <4>2, OrderOfNumbers DEF m, n
        <4> QED
          BY <4>1, <4>2
      <3> HIDE DEF k
      <3>3. k - m + 1 \in DOMAIN r /\ m + (k - m + 1) - 1 = k
        BY <1>1, <2>3, <3>2
      <3> QED
        BY <2>3, <3>1, <3>3
    <2>7. ASSUME NEW i \in DOMAIN r, i > 1 PROVE Precedes(r[i - 1], r[i])
      <3>1. i - 1 \in DOMAIN r /\ m + (i - 1) - 1 < m + i - 1
        BY <1>1, <2>3, <2>7
      <3> QED
        BY <2>4, <3>1, OrderOfNumbers
    <2>8. {r[i] : i \in DOMAIN r}
            = {s, e} \cup {a \in IPs : Precedes(s, a) /\ Precedes(a, e)}
      BY <2>5, <2>6
    <2> QED
      BY <2>1, <2>7, <2>8 DEF RangeWhole, r
  <1> QED
    BY <1>1, <1>2, <1>3

\* The pods of a node with a range key draw from exactly the configured range, for
\* octets of any number of values and ranges of any length (ipam.go:364-377,
\* net.go:51-62).
THEOREM RangesAlwaysWhole == Spec => []RangesWhole
  <1>1. ASSUME NEW s \in IPs, NEW k \in Octets, NEW l \in Octets
        PROVE  [s EXCEPT ![3] = k, ![4] = l] \in IPs
    BY DEF IPs
  <1>2. AnyRangeWhole
    BY <1>1, ClusterPlanAssumption, EveryRangeWhole DEF AnyRangeWhole
  <1>3. RangesWhole
    BY <1>2 DEF RangesWhole
  <1> QED
    BY <1>3, PTL

=============================================================================
