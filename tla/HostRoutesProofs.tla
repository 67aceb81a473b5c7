-------------------------- MODULE HostRoutesProofs --------------------------
(***************************************************************************)
(* Theorems about HostRoutes, for any number of nodes and ADDs, and for    *)
(* any number of times a node gets another address.                        *)
(***************************************************************************)
EXTENDS HostRoutes, TLAPS

Routed(p, h) == table[HostOf[p]][h] # None

\* What an ADD has read was true and, but for the addresses, still is.
ReadsHold == \A p \in Adds : pc[p] \in {"list", "routes"} =>
    /\ nets[p] \subseteq joined
    /\ \A h \in Hosts : ips[p][h] \in 1..address[h]
    /\ todo[p] \subseteq Others(p)

\* An ADD only leaves out a node its own node has a route to.
RestRouted == \A p \in Adds :
    /\ pc[p] = "list" => todo[p] = Others(p)
    /\ pc[p] = "routes" =>
           /\ \A h \in list[p] : Routed(p, h)
           /\ \A h \in Others(p) \ todo[p] : Routed(p, h)
    /\ pc[p] = "up" => \A h \in Others(p) : Routed(p, h)

RoutesInv ==
    /\ TypeOK
    /\ table \in [Hosts -> [Hosts -> Nat]]
    /\ ReadsHold
    /\ RestRouted

LEMMA NextCases ==
    ASSUME Next
    PROVE  \/ \E p \in Adds :
                \/ Add(p) \/ ReadNetworks(p) \/ ListRoutes(p) \/ Succeed(p) \/ Again(p)
                \/ \E h \in Hosts : Unassigned(p, h) \/ Skip(p, h) \/ AddRoute(p, h)
           \/ \E h \in Hosts : Renumber(h)
  BY DEF Next, Step

LEMMA RoutesInit == Init => RoutesInv
  BY HostRoutesAssumption
     DEF Init, RoutesInv, TypeOK, ReadsHold, RestRouted, NoRoutes, None

LEMMA RoutesStep == RoutesInv /\ [Next]_vars => RoutesInv'
  <1> SUFFICES ASSUME RoutesInv, [Next]_vars PROVE RoutesInv'
    OBVIOUS
  <1> USE HostRoutesAssumption
      DEF RoutesInv, TypeOK, ReadsHold, RestRouted, Routed, NoRoutes, None, Others,
          Goto, local
  <1>u. CASE UNCHANGED vars
    BY <1>u DEF vars
  <1>r. ASSUME NEW h \in Hosts, Renumber(h)
        PROVE  RoutesInv'
    BY <1>r DEF Renumber
  <1>n. ASSUME NEW p \in Adds,
               \/ Add(p) \/ ReadNetworks(p) \/ ListRoutes(p)
               \/ Succeed(p) \/ Again(p)
        PROVE  RoutesInv'
    <2>1. CASE Add(p)
      BY <2>1 DEF Add
    <2>2. CASE ReadNetworks(p)
      BY <2>2 DEF ReadNetworks
    <2>3. CASE ListRoutes(p)
      BY <2>3 DEF ListRoutes
    <2>4. CASE Succeed(p)
      BY <2>4 DEF Succeed, End
    <2>5. CASE Again(p)
      BY <2>5 DEF Again
    <2> QED
      BY <1>n, <2>1, <2>2, <2>3, <2>4, <2>5
  <1>h. ASSUME NEW p \in Adds, NEW h \in Hosts,
               \/ Unassigned(p, h) \/ Skip(p, h) \/ AddRoute(p, h)
        PROVE  RoutesInv'
    <2>1. CASE Unassigned(p, h)
      BY <2>1 DEF Unassigned, End
    <2>2. CASE Skip(p, h)
      BY <2>2 DEF Skip
    <2>3. CASE AddRoute(p, h)
      <3>1. CASE table[HostOf[p]][h] = None
        <4> DEFINE n == HostOf[p]
        <4>1. /\ table' = [table EXCEPT ![n][h] = ips[p][h]]
              /\ todo' = [todo EXCEPT ![p] = @ \ {h}]
              /\ UNCHANGED <<joined, address, pc, nets, ips, list>>
          BY <2>3, <3>1 DEF AddRoute
        <4>2. /\ n \in Hosts /\ h \in joined \ {n}
              /\ ips[p][h] \in 1..address[h]
          BY <2>3 DEF AddRoute
        <4>3. table'[n][h] # None
          BY <4>1, <4>2
        <4>4. \A m, k \in Hosts : table[m][k] # None => table'[m][k] # None
          BY <4>1, <4>2
        <4>5. TypeOK' /\ (table \in [Hosts -> [Hosts -> Nat]])'
          BY <4>1, <4>2
        <4>6. ReadsHold'
          BY <4>1
        <4>7. RestRouted'
          <5> SUFFICES ASSUME NEW q \in Adds
                       PROVE  /\ pc'[q] = "list" => todo'[q] = Others(q)
                              /\ pc'[q] = "routes" =>
                                     /\ \A k \in list'[q] : table'[HostOf[q]][k] # None
                                     /\ \A k \in Others(q) \ todo'[q] :
                                            table'[HostOf[q]][k] # None
                              /\ pc'[q] = "up" =>
                                     \A k \in Others(q) : table'[HostOf[q]][k] # None
            OBVIOUS
          <5> HostOf[q] \in Hosts
            OBVIOUS
          <5> HIDE DEF n
          <5>1. pc'[q] = pc[q] /\ list'[q] = list[q]
            BY <4>1
          <5>2. todo'[q] = IF q = p THEN todo[p] \ {h} ELSE todo[q]
            BY <4>1
          <5>3. n = HostOf[p]
            BY DEF n
          <5>4. \A k \in list'[q] : k \in Hosts
            BY <5>1
          <5> QED
            BY <2>3, <4>3, <4>4, <5>1, <5>2, <5>3, <5>4 DEF AddRoute
        <4> QED
          BY <4>5, <4>6, <4>7
      <3>2. CASE table[HostOf[p]][h] # None
        <4>1. End(p, "failed") /\ UNCHANGED <<joined, address, table>>
          BY <2>3, <3>2 DEF AddRoute
        <4> QED
          BY <4>1 DEF End
      <3> QED
        BY <3>1, <3>2
    <2> QED
      BY <1>h, <2>1, <2>2, <2>3
  <1> QED
    BY <1>u, <1>r, <1>n, <1>h, NextCases

LEMMA RoutesAlways == Spec => []RoutesInv
  BY RoutesInit, RoutesStep, PTL DEF Spec

-----------------------------------------------------------------------------
\* Every variable keeps its type; a route goes via an address its node has had, and
\* only to a node that has a network.
THEOREM TypeCorrect == Spec => []TypeOK
  <1>1. RoutesInv => TypeOK
    BY DEF RoutesInv
  <1> QED
    BY <1>1, RoutesAlways, PTL

\* When ADDs of two nodes have succeeded there are routes between the nodes in both
\* directions, although neither ADD knew of the other one (hostgw.go:135-140).
THEOREM UpAlwaysMeansConnected == Spec => []UpMeansConnected
  <1>1. RoutesInv => UpMeansConnected
    BY HostRoutesAssumption DEF RoutesInv, RestRouted, Routed, Others, UpMeansConnected
  <1> QED
    BY <1>1, RoutesAlways, PTL

-----------------------------------------------------------------------------
(***************************************************************************)
(* Why ADDs that fail succeed in the end: what made them fail does not     *)
(* come back.                                                              *)
(***************************************************************************)

\* The kernel would refuse a route of this ADD: it was added after the list was read.
Late(p) ==
    pc[p] = "routes" /\ \E h \in todo[p] : h \notin list[p] /\ Routed(p, h)

\* A route that is there stays as it is.
RoutesKept ==
    \A h, n \in Hosts : table[h][n] # None => table'[h][n] = table[h][n]

\* An ADD is refused only after another ADD of its node has added a route that was
\* missing.
RefusedByAnother ==
    \A p \in Adds :
        /\ pc[p] # "failed" /\ pc'[p] = "failed" => Late(p)
        /\ ~ Late(p) /\ Late(p)' =>
              \E q \in Adds \ {p}, h \in Hosts :
                  /\ AddRoute(q, h) /\ HostOf[q] = HostOf[p]
                  /\ table[HostOf[p]][h] = None /\ table'[HostOf[p]][h] # None

\* All nodes have networks and routes to each other, and no ADD is left that began
\* before.
Settled ==
    /\ joined = Hosts
    /\ \A h, n \in Hosts : h # n => table[h][n] # None
    /\ \A p \in Adds : /\ pc[p] \in {"list", "routes"} => nets[p] = Hosts
                       /\ pc[p] = "routes" => Others(p) \subseteq list[p]

NoneFailsThen ==
    Settled => /\ Settled'
               /\ \A p \in Adds : pc'[p] \in {"failed", "unassigned"} => pc'[p] = pc[p]

LEMMA KeptStep == RoutesInv /\ [Next]_vars => [RoutesKept]_vars
  <1> SUFFICES ASSUME RoutesInv, Next PROVE RoutesKept
    OBVIOUS
  <1>1. ASSUME NEW p \in Adds, NEW h \in Hosts, AddRoute(p, h) PROVE RoutesKept
    BY <1>1, HostRoutesAssumption DEF AddRoute, RoutesKept, RoutesInv
  <1>2. CASE table' = table
    BY <1>2 DEF RoutesKept
  <1> QED
    BY <1>1, <1>2, NextCases
       DEF Add, ReadNetworks, ListRoutes, Succeed, Again, Unassigned, Skip, Renumber

LEMMA RefusedStep == RoutesInv /\ [Next]_vars => [RefusedByAnother]_vars
  <1> SUFFICES ASSUME RoutesInv, Next, NEW p \in Adds
               PROVE  /\ pc[p] # "failed" /\ pc'[p] = "failed" => Late(p)
                      /\ ~ Late(p) /\ Late(p)' =>
                            \E q \in Adds \ {p}, h \in Hosts :
                                /\ AddRoute(q, h) /\ HostOf[q] = HostOf[p]
                                /\ table[HostOf[p]][h] = None
                                /\ table'[HostOf[p]][h] # None
    BY DEF RefusedByAnother
  <1>t. /\ pc \in [Adds -> {"idle", "networks", "list", "routes", "up", "failed",
                            "unassigned"}]
        /\ list \in [Adds -> SUBSET Hosts] /\ todo \in [Adds -> SUBSET Hosts]
        /\ table \in [Hosts -> [Hosts -> Nat]] /\ HostOf \in [Adds -> Hosts]
    BY HostRoutesAssumption DEF RoutesInv, TypeOK
  <1> USE <1>t DEF Late, Routed, Goto, End, local
  <1>1. ASSUME NEW q \in Adds, NEW h \in Hosts, AddRoute(q, h)
        PROVE  /\ pc[p] # "failed" /\ pc'[p] = "failed" => Late(p)
               /\ ~ Late(p) /\ Late(p)' =>
                     /\ q # p /\ HostOf[q] = HostOf[p]
                     /\ table[HostOf[p]][h] = None /\ table'[HostOf[p]][h] # None
    <2>1. CASE table[HostOf[q]][h] # None
      BY <1>1, <2>1 DEF AddRoute
    <2>2. CASE table[HostOf[q]][h] = None
      <3>1. /\ table' = [table EXCEPT ![HostOf[q]][h] = ips[q][h]]
            /\ todo' = [todo EXCEPT ![q] = @ \ {h}]
            /\ UNCHANGED <<pc, list>>
        BY <1>1, <2>2 DEF AddRoute
      <3>2. ASSUME ~ Late(p), Late(p)' PROVE q # p /\ HostOf[q] = HostOf[p]
        BY <3>1, <3>2
      <3>3. ASSUME ~ Late(p), Late(p)' PROVE table'[HostOf[p]][h] # None
        BY <3>1, <3>2, <3>3
      <3> QED
        BY <2>2, <3>1, <3>2, <3>3
    <2> QED
      BY <2>1, <2>2
  <1>2. ASSUME NEW q \in Adds,
               \/ Add(q) \/ ReadNetworks(q) \/ ListRoutes(q) \/ Succeed(q) \/ Again(q)
               \/ \E h \in Hosts : Unassigned(q, h) \/ Skip(q, h)
        PROVE  (pc'[p] = "failed" => pc[p] = "failed") /\ (Late(p)' => Late(p))
    BY <1>2 DEF Add, ReadNetworks, ListRoutes, Succeed, Again, Unassigned, Skip
  <1>3. ASSUME NEW h \in Hosts, Renumber(h)
        PROVE  (pc'[p] = "failed" => pc[p] = "failed") /\ (Late(p)' => Late(p))
    BY <1>3 DEF Renumber
  <1> QED
    BY <1>1, <1>2, <1>3, NextCases

LEMMA SettledStep == RoutesInv /\ [Next]_vars => [NoneFailsThen]_vars
  <1> SUFFICES ASSUME RoutesInv, Next, Settled
               PROVE  /\ Settled'
                      /\ \A p \in Adds :
                            pc'[p] \in {"failed", "unassigned"} => pc'[p] = pc[p]
    BY DEF NoneFailsThen
  <1>t. /\ pc \in [Adds -> {"idle", "networks", "list", "routes", "up", "failed",
                            "unassigned"}]
        /\ nets \in [Adds -> SUBSET Hosts] /\ list \in [Adds -> SUBSET Hosts]
        /\ todo \in [Adds -> SUBSET Hosts] /\ HostOf \in [Adds -> Hosts]
        /\ \A q \in Adds : pc[q] = "routes" => todo[q] \subseteq Others(q)
    BY HostRoutesAssumption DEF RoutesInv, TypeOK, ReadsHold
  <1> USE <1>t DEF Settled, Goto, End, Others, local
  <1>1. ASSUME NEW p \in Adds, NEW h \in Hosts PROVE ~ AddRoute(p, h) /\ ~ Unassigned(p, h)
    BY DEF AddRoute, Unassigned
  <1>2. ASSUME NEW p \in Adds,
               \/ Add(p) \/ ReadNetworks(p) \/ ListRoutes(p) \/ Succeed(p) \/ Again(p)
               \/ \E h \in Hosts : Skip(p, h)
        PROVE  /\ Settled'
               /\ \A q \in Adds : pc'[q] \in {"failed", "unassigned"} => pc'[q] = pc[q]
    <2>1. CASE Add(p)
      BY <2>1 DEF Add
    <2>2. CASE ReadNetworks(p)
      BY <2>2 DEF ReadNetworks
    <2>3. CASE ListRoutes(p)
      BY <2>3 DEF ListRoutes
    <2>4. CASE Succeed(p)
      BY <2>4 DEF Succeed
    <2>5. CASE Again(p)
      BY <2>5 DEF Again
    <2>6. ASSUME NEW h \in Hosts, Skip(p, h)
          PROVE  /\ Settled'
                 /\ \A q \in Adds : pc'[q] \in {"failed", "unassigned"} => pc'[q] = pc[q]
      BY <2>6 DEF Skip
    <2> QED
      BY <1>2, <2>1, <2>2, <2>3, <2>4, <2>5, <2>6
  <1>3. ASSUME NEW h \in Hosts, Renumber(h)
        PROVE  /\ Settled'
               /\ \A q \in Adds : pc'[q] \in {"failed", "unassigned"} => pc'[q] = pc[q]
    BY <1>3 DEF Renumber
  <1> QED
    BY <1>1, <1>2, <1>3, NextCases

\* An ADD that meets others of its node is refused a route only because one of them
\* added it, and a route is never taken away or changed: each refusal costs one of
\* the routes that were missing, and there are only so many (nettools.go:613-626).
THEOREM RefusalsRunOut == Spec => [][RoutesKept /\ RefusedByAnother]_vars
  <1>1. RoutesInv /\ [Next]_vars => [RoutesKept /\ RefusedByAnother]_vars
    BY KeptStep, RefusedStep
  <1> QED
    BY <1>1, RoutesInit, RoutesStep, PTL DEF Spec

\* Once all nodes have networks and routes to each other, and the ADDs that began
\* before are done, no ADD ever fails again, whatever overlaps and whichever node
\* gets another address (nettools.go:600-631).
THEOREM SettledForGood == Spec => [][NoneFailsThen]_vars
  BY RoutesInit, RoutesStep, SettledStep, PTL DEF Spec

=============================================================================
