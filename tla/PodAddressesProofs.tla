------------------------- MODULE PodAddressesProofs -------------------------
(***************************************************************************)
(* Theorems about PodAddresses, for any set of pods, any range, and any     *)
(* number of retries, failures and errors on the range's key.              *)
(***************************************************************************)
EXTENDS PodAddresses, FiniteSetTheorems, TLAPS

LEMMA AddStepCases ==
    ASSUME NEW p \in Pods, Add(p) \/ Step(p) \/ Fail(p) \/ Del(p)
    PROVE  \/ Add(p) \/ Scan(p) \/ ReadRange(p) \/ RangeUnread(p)
           \/ Pick(p) \/ PickNet(p) \/ PickFails(p) \/ Reread(p) \/ Write(p)
           \/ SetUp(p) \/ SetUpFails(p) \/ ReleaseRead(p) \/ ReleaseWrite(p)
           \/ ReleaseFails(p) \/ SetRoutes(p) \/ Fail(p) \/ Del(p)
  BY DEF Step

\* A candidate is an address considered.
LEMMA CandidatesAreAddrs == Candidates \subseteq Addrs
  BY PodAddressesAssumption DEF Candidates, Addrs, Network

\* The string with the mask is not: releasing it changes nothing.
LEMMA MaskedIsNoAddr ==
    ASSUME NEW a \in Addrs, NEW r \in SUBSET Addrs
    PROVE  r \ {WithMask(a)} = r
  <1>1. WithMask(a) \notin Addrs
    BY PodAddressesAssumption DEF WithMask, Addrs
  <1> QED
    BY <1>1

-----------------------------------------------------------------------------
\* What an ADD may have drawn so far.
Drawn(a) == a \in IPRange \/ (a \in Network /\ (IPRange = {} \/ errors > 0))

\* Every step that has an address chosen has drawn it, and no reserved address gets
\* past Write.
Chosen == \A p \in Pods :
    /\ pc[p] = "pickNet" => IPRange = {} \/ errors > 0
    /\ pc[p] \in {"reread", "write"} => Drawn(ip[p])
    /\ Owned(p) => Drawn(ip[p]) /\ ip[p] \notin Reserved

ChosenInv == TypeOK /\ Chosen

LEMMA ChosenInit == Init => ChosenInv
  BY PodAddressesAssumption DEF Init, ChosenInv, TypeOK, Chosen, Owned, Ended

\* What is drawn is a candidate, and stays drawn as errors go up.
LEMMA DrawnIsCandidate == \A a : Drawn(a) => a \in Candidates /\ a \in Addrs
  BY CandidatesAreAddrs DEF Drawn, Candidates

LEMMA ErrorsGrow ==
    ASSUME TypeOK, NEW p \in Pods, Add(p) \/ Step(p) \/ Fail(p) \/ Del(p)
    PROVE  /\ errors \in Nat /\ errors' \in Nat
           /\ IF RangeUnread(p) THEN errors' = errors + 1 ELSE errors' = errors
  <1>1. errors \in Nat
    BY PodAddressesAssumption DEF TypeOK
  <1> QED
    BY <1>1, AddStepCases
       DEF Add, Scan, ReadRange, RangeUnread, Pick, PickNet, PickFails, Reread, Write,
           SetUp, SetUpFails, ReleaseRead, ReleaseWrite, ReleaseFails, SetRoutes, Fail,
           Del

LEMMA ChosenStep == ChosenInv /\ [Next]_vars => ChosenInv'
  <1> SUFFICES ASSUME ChosenInv, [Next]_vars PROVE ChosenInv'
    OBVIOUS
  <1> USE CandidatesAreAddrs, PodAddressesAssumption
      DEF ChosenInv, TypeOK, Chosen, Owned, Goto, Ended, Steps, Drawn, Candidates
  <1>u. CASE UNCHANGED vars
    BY <1>u DEF vars
  <1>n. CASE Next
    <2> PICK p \in Pods : Add(p) \/ Step(p) \/ Fail(p) \/ Del(p)
      BY <1>n DEF Next
    <2>2. CASE Scan(p)
      BY <2>2 DEF Scan
    <2>3. CASE ReadRange(p)
      BY <2>3 DEF ReadRange
    <2>4. CASE RangeUnread(p)
      BY <2>4 DEF RangeUnread
    <2>5. CASE Pick(p)
      BY <2>5 DEF Pick
    <2>6. CASE PickNet(p)
      BY <2>6 DEF PickNet
    <2>7. CASE PickFails(p)
      BY <2>7 DEF PickFails
    <2>8. CASE Reread(p)
      BY <2>8 DEF Reread
    <2>9. CASE Write(p)
      <3>1. CASE ip[p] \in Reserved
        BY <2>9, <3>1 DEF Write, With
      <3>2. CASE ip[p] \notin Reserved
        BY <2>9, <3>2 DEF Write, With
      <3> QED
        BY <3>1, <3>2
    <2>10. CASE SetUp(p)
      BY <2>10 DEF SetUp
    <2>11. CASE SetUpFails(p)
      BY <2>11 DEF SetUpFails
    <2>12. CASE ReleaseRead(p)
      BY <2>12 DEF ReleaseRead
    <2>13. CASE ReleaseWrite(p)
      BY <2>13 DEF ReleaseWrite
    <2>14. CASE ReleaseFails(p)
      BY <2>14 DEF ReleaseFails
    <2>15. CASE SetRoutes(p)
      BY <2>15 DEF SetRoutes
    <2>16. CASE Fail(p)
      BY <2>16 DEF Fail
    <2>17. CASE Add(p)
      BY <2>17 DEF Add
    <2>18. CASE Del(p)
      BY <2>18 DEF Del
    <2> QED
      BY <2>2, <2>3, <2>4, <2>5, <2>6, <2>7, <2>8, <2>9, <2>10, <2>11, <2>12, <2>13,
         <2>14, <2>15, <2>16, <2>17, <2>18, AddStepCases
  <1> QED
    BY <1>u, <1>n

\* Every variable keeps its type.
THEOREM TypeCorrect == Spec => []TypeOK
  BY ChosenInit, ChosenStep, PTL DEF Spec, ChosenInv

\* Whatever ADDs interleave, fail and are repeated, no pod is ever given an address
\* that ends in .0 or .1, or one out of the range before the range's key could not
\* be read.
THEOREM ReservedKept == Spec => []NoReservedAddress
  <1>1. ChosenInv => NoReservedAddress
    BY DEF ChosenInv, Chosen, Drawn, NoReservedAddress
  <1> QED
    BY <1>1, ChosenInit, ChosenStep, PTL DEF Spec

-----------------------------------------------------------------------------
(***************************************************************************)
(* When the node adds one pod at a time.                                   *)
(***************************************************************************)
OneBusy == \A p, q \in Pods : Busy(p) /\ Busy(q) => p = q

\* What a pod's ADD has read is still what etcd holds.
Fresh == \A p \in Pods :
    /\ pc[p] \in {"range", "pick", "pickNet", "write", "relWrite"} => seen[p] = record
    /\ pc[p] \in {"reread", "write"} => ip[p] \notin record

SerialInv ==
    ChosenInv /\ OneBusy /\ Fresh /\ PodIPRecorded /\ PodIPsDistinct

LEMMA SerialInit == Init => SerialInv
  <1> SUFFICES ASSUME Init PROVE SerialInv
    OBVIOUS
  <1>1. OneBusy /\ Fresh /\ PodIPRecorded /\ PodIPsDistinct
    BY DEF Init, OneBusy, Busy, Ended, Fresh, PodIPRecorded, PodIPsDistinct, Owned
  <1> QED
    BY <1>1, ChosenInit DEF SerialInv

\* Only a DEL and the next ADD move while another pod's ADD is under way, and
\* the ADD waits for it.
LEMMA OthersEnded ==
    ASSUME Serial, OneBusy, TypeOK, NEW p \in Pods,
           Add(p) \/ Step(p) \/ Fail(p),
           NEW q \in Pods, q # p
    PROVE  pc[q] \in Ended /\ pc'[q] = pc[q] /\ ip'[q] = ip[q]
  <1>1. pc'[q] = pc[q] /\ ip'[q] = ip[q]
    BY AddStepCases DEF Add, Scan, ReadRange, RangeUnread, Pick, PickNet, PickFails, Reread,
       Write, SetUp, SetUpFails, ReleaseRead, ReleaseWrite, ReleaseFails, SetRoutes, Fail,
       Goto, TypeOK, Del, Step
  <1>2. CASE Add(p)
    BY <1>1, <1>2 DEF Add, Busy
  <1>3. CASE Step(p) \/ Fail(p)
    <2>1. Busy(p)
      BY <1>3 DEF Step, Scan, ReadRange, RangeUnread, Pick, PickNet, PickFails, Reread,
         Write, SetUp, SetUpFails, ReleaseRead, ReleaseWrite, ReleaseFails, SetRoutes, Fail,
         Busy, Ended
    <2> QED
      BY <1>1, <2>1 DEF OneBusy, Busy
  <1> QED
    BY <1>2, <1>3

LEMMA SerialStep ==
    ASSUME Serial
    PROVE  SerialInv /\ [Next]_vars => SerialInv'
  <1> SUFFICES ASSUME SerialInv, [Next]_vars PROVE SerialInv'
    OBVIOUS
  <1>c. ChosenInv /\ ChosenInv'
    BY ChosenStep DEF SerialInv
  <1>u. CASE UNCHANGED vars
    BY <1>c, <1>u DEF vars, SerialInv, OneBusy, Busy, Fresh, PodIPRecorded,
       PodIPsDistinct, Owned
  <1>d. ASSUME NEW p \in Pods, Del(p)
        PROVE  SerialInv'
    <2>1. OneBusy' /\ Fresh'
      BY <1>c, <1>d DEF Del, SerialInv, ChosenInv, TypeOK, OneBusy, Busy, Ended,
         Fresh, Goto
    <2>2. PodIPRecorded' /\ PodIPsDistinct'
      BY <1>c, <1>d DEF Del, SerialInv, ChosenInv, TypeOK, PodIPRecorded,
         PodIPsDistinct, Owned, Goto
    <2> QED
      BY <1>c, <2>1, <2>2 DEF SerialInv
  <1>s. ASSUME NEW p \in Pods, Add(p) \/ Step(p) \/ Fail(p)
        PROVE  SerialInv'
    <2>t. TypeOK /\ TypeOK' /\ Chosen
      BY <1>c DEF ChosenInv
    <2>o. \A q \in Pods : q # p =>
            pc[q] \in Ended /\ pc'[q] = pc[q] /\ ip'[q] = ip[q]
      BY <1>s, <2>t, OthersEnded DEF SerialInv
    <2>b. OneBusy'
      BY <2>o DEF OneBusy, Busy
    <2> USE <1>s, <2>t, <2>o, CandidatesAreAddrs
        DEF SerialInv, TypeOK, Goto, Ended, Fresh, PodIPRecorded, PodIPsDistinct,
            Owned
    <2>1. ASSUME Add(p) PROVE Fresh' /\ PodIPRecorded' /\ PodIPsDistinct'
      BY <2>1 DEF Add
    <2>2. ASSUME Scan(p) PROVE Fresh' /\ PodIPRecorded' /\ PodIPsDistinct'
      BY <2>2 DEF Scan
    <2>13. ASSUME ReadRange(p) PROVE Fresh' /\ PodIPRecorded' /\ PodIPsDistinct'
      BY <2>13 DEF ReadRange
    <2>14. ASSUME RangeUnread(p) PROVE Fresh' /\ PodIPRecorded' /\ PodIPsDistinct'
      BY <2>14 DEF RangeUnread
    <2>15. ASSUME PickNet(p) PROVE Fresh' /\ PodIPRecorded' /\ PodIPsDistinct'
      BY <2>15 DEF PickNet
    <2>16. ASSUME ReleaseFails(p) PROVE Fresh' /\ PodIPRecorded' /\ PodIPsDistinct'
      BY <2>16 DEF ReleaseFails
    <2>3. ASSUME Pick(p) PROVE Fresh' /\ PodIPRecorded' /\ PodIPsDistinct'
      BY <2>3 DEF Pick
    <2>4. ASSUME PickFails(p) PROVE Fresh' /\ PodIPRecorded' /\ PodIPsDistinct'
      BY <2>4 DEF PickFails
    <2>5. ASSUME Reread(p) PROVE Fresh' /\ PodIPRecorded' /\ PodIPsDistinct'
      BY <2>5 DEF Reread
    <2>6. ASSUME Write(p) PROVE Fresh' /\ PodIPRecorded' /\ PodIPsDistinct'
      <3>1. \A q \in Pods : q # p => ip[q] \in record \/ ~Owned(q)
        OBVIOUS
      <3>2. record' = record \cup {ip[p]} /\ ip[p] \notin record
        BY <2>6 DEF Write, With
      <3>3. CASE ip[p] \in Reserved
        BY <2>6, <3>1, <3>2, <3>3 DEF Write, With
      <3>4. CASE ip[p] \notin Reserved
        <4>1. Fresh' /\ PodIPRecorded'
          BY <2>6, <3>1, <3>2, <3>4 DEF Write, With
        <4>2. PodIPsDistinct'
          BY <2>6, <3>1, <3>2, <3>4 DEF Write, With
        <4> QED
          BY <4>1, <4>2
      <3> QED
        BY <3>3, <3>4
    <2>7. ASSUME SetUp(p) PROVE Fresh' /\ PodIPRecorded' /\ PodIPsDistinct'
      BY <2>7 DEF SetUp
    <2>8. ASSUME SetUpFails(p) PROVE Fresh' /\ PodIPRecorded' /\ PodIPsDistinct'
      <3>1. CASE HostGw
        BY <2>8, <3>1 DEF SetUpFails
      <3>2. CASE ~HostGw
        BY <2>8, <3>2 DEF SetUpFails
      <3> QED
        BY <3>1, <3>2
    <2>9. ASSUME ReleaseRead(p) PROVE Fresh' /\ PodIPRecorded' /\ PodIPsDistinct'
      BY <2>9 DEF ReleaseRead
    <2>10. ASSUME ReleaseWrite(p) PROVE Fresh' /\ PodIPRecorded' /\ PodIPsDistinct'
      <3>1. record' = record
        <4>1. record' = record \ {WithMask(ip[p])}
          BY <2>10 DEF ReleaseWrite
        <4>2. ip[p] \in Addrs
          BY <2>10, DrawnIsCandidate DEF ReleaseWrite, Chosen
        <4> QED
          BY <4>1, <4>2, MaskedIsNoAddr
      <3> QED
        BY <2>10, <3>1 DEF ReleaseWrite
    <2>11. ASSUME SetRoutes(p) PROVE Fresh' /\ PodIPRecorded' /\ PodIPsDistinct'
      BY <2>11 DEF SetRoutes
    <2>12. ASSUME Fail(p) PROVE Fresh' /\ PodIPRecorded' /\ PodIPsDistinct'
      BY <2>12 DEF Fail
    <2> QED
      BY <1>c, <2>b, <2>1, <2>2, <2>3, <2>4, <2>5, <2>6, <2>7, <2>8, <2>9,
         <2>10, <2>11, <2>12, <2>13, <2>14, <2>15, <2>16 DEF Step
  <1> QED
    BY <1>u, <1>d, <1>s DEF Next

\* One ADD at a time, retried and killed at will: no two pods ever have the same
\* address, because an address is in the record from before its pod has it.
THEOREM AddressesDistinct ==
    ASSUME Serial
    PROVE  Spec => []PodIPsDistinct
  BY SerialInit, SerialStep, PTL DEF Spec, SerialInv

\* One ADD at a time: the address of a pod stays in the record as long as the pod
\* has it, so that it is never handed out again.
THEOREM AddressesRecorded ==
    ASSUME Serial
    PROVE  Spec => []PodIPRecorded
  BY SerialInit, SerialStep, PTL DEF Spec, SerialInv

-----------------------------------------------------------------------------
(***************************************************************************)
(* "All of the ips are used": a record that has as many entries as the      *)
(* range misses at most as many of the range as it holds of other addresses, *)
(* and those came in one for each time that the range's key was not read.   *)
(***************************************************************************)

\* The addresses that were drawn although they are not of the range.
Strays == record \ IPRange

LEMMA RangeFinite == IsFiniteSet(IPRange)
  <1>1. IsFiniteSet(0..Last) /\ IPRange \in SUBSET (0..Last)
    BY PodAddressesAssumption, FS_Interval
  <1> QED
    BY <1>1, FS_Subset

LEMMA RecordFinite ==
    ASSUME TypeOK
    PROVE  IsFiniteSet(record)
  <1>1. IsFiniteSet(0..Last) /\ record \in SUBSET (0..Last)
    BY PodAddressesAssumption, FS_Interval DEF TypeOK, Addrs
  <1> QED
    BY <1>1, FS_Subset

\* Counting is nearly enough, also because no range has one address, which is what
\* an empty record counts for.
LEMMA CountedMeansNearlyAll ==
    ASSUME NEW r, IsFiniteSet(r), Entries(r) = Cardinality(IPRange)
    PROVE  Cardinality(IPRange \ r) = Cardinality(r \ IPRange)
  <1>1. r # {}
    BY PodAddressesAssumption DEF Entries
  <1>2. Cardinality(r) = Cardinality(IPRange)
    BY <1>1 DEF Entries
  <1>3. /\ Cardinality(IPRange \ r) = Cardinality(IPRange) - Cardinality(IPRange \cap r)
        /\ Cardinality(r \ IPRange) = Cardinality(r) - Cardinality(r \cap IPRange)
    BY RangeFinite, FS_Difference
  <1>4. IPRange \cap r = r \cap IPRange
    OBVIOUS
  <1> QED
    BY <1>2, <1>3, <1>4

\* One ADD at a time, the record only grows, by a candidate.
LEMMA RecordGrows ==
    ASSUME SerialInv, NEW p \in Pods, Add(p) \/ Step(p) \/ Fail(p) \/ Del(p)
    PROVE  record' = record \/ \E a \in Candidates : record' = record \cup {a}
  <1>1. CASE Write(p)
    BY <1>1, DrawnIsCandidate DEF Write, With, SerialInv, ChosenInv, Chosen, Fresh
  <1>2. CASE ReleaseWrite(p)
    <2>1. record' = record \ {WithMask(ip[p])}
      BY <1>2 DEF ReleaseWrite, SerialInv, Fresh
    <2>2. ip[p] \in Addrs /\ record \in SUBSET Addrs
      BY <1>2, DrawnIsCandidate
         DEF ReleaseWrite, SerialInv, ChosenInv, Chosen, Owned, TypeOK
    <2> QED
      BY <2>1, <2>2, MaskedIsNoAddr
  <1>3. CASE ~ Write(p) /\ ~ ReleaseWrite(p)
    BY <1>3, AddStepCases
       DEF Add, Scan, ReadRange, RangeUnread, Pick, PickNet, PickFails, Reread, SetUp,
           SetUpFails, ReleaseRead, ReleaseFails, SetRoutes, Fail, Del
  <1> QED
    BY <1>1, <1>2, <1>3

\* An ADD on its way to draw, or to write down, an address out of the range.
Straying(p) == pc[p] = "pickNet" \/ (pc[p] \in {"reread", "write"} /\ ip[p] \notin IPRange)

\* Each error of the range's key lets in one address that is not of the range, and
\* one that is on its way has its error already counted.
StraysCounted ==
    IPRange # {} =>
        /\ Cardinality(Strays) <= errors
        /\ \A p \in Pods : Straying(p) => Cardinality(Strays) < errors

StrayInv == SerialInv /\ StraysCounted

LEMMA StrayInit == Init => StrayInv
  <1> SUFFICES ASSUME Init PROVE StraysCounted
    BY SerialInit DEF StrayInv
  <1>1. Strays = {} /\ Cardinality({}) = 0 /\ errors = 0
    BY FS_EmptySet DEF Init, Strays
  <1>2. \A p \in Pods : ~Straying(p)
    BY DEF Init, Straying
  <1> QED
    BY <1>1, <1>2 DEF StraysCounted

\* The step that adds to the strays is the write of an ADD that strayed.
LEMMA StraysGrow ==
    ASSUME SerialInv, NEW p \in Pods, Add(p) \/ Step(p) \/ Fail(p) \/ Del(p)
    PROVE  /\ IsFiniteSet(Strays) /\ Cardinality(Strays) \in Nat
           /\ IF Write(p) /\ Straying(p)
              THEN Cardinality(Strays') = Cardinality(Strays) + 1
              ELSE Strays' = Strays
  <1>t. TypeOK
    BY DEF SerialInv, ChosenInv
  <1>1. IsFiniteSet(Strays)
    BY <1>t, RecordFinite, FS_Difference DEF Strays
  <1>2. CASE Write(p)
    <2>1. record' = record \cup {ip[p]} /\ ip[p] \notin record /\ pc[p] = "write"
      BY <1>2 DEF Write, With, SerialInv, Fresh
    <2>2. CASE ip[p] \in IPRange
      BY <1>1, <2>1, <2>2, FS_CardinalityType DEF Strays, Straying
    <2>3. CASE ip[p] \notin IPRange
      <3>1. Strays' = Strays \cup {ip[p]} /\ ip[p] \notin Strays
        BY <2>1, <2>3 DEF Strays
      <3>2. Cardinality(Strays \cup {ip[p]}) = Cardinality(Strays) + 1
        BY <1>1, <3>1, FS_AddElement
      <3> QED
        BY <1>1, <1>2, <2>1, <2>3, <3>1, <3>2, FS_CardinalityType DEF Straying
    <2> QED
      BY <2>2, <2>3
  <1>3. CASE ~Write(p)
    <2>1. record' = record
      <3>1. CASE ReleaseWrite(p)
        <4>1. record' = record \ {WithMask(ip[p])} /\ ip[p] \in Addrs
          BY <3>1, DrawnIsCandidate
             DEF ReleaseWrite, SerialInv, Fresh, ChosenInv, Chosen, Owned
        <4> QED
          BY <1>t, <4>1, MaskedIsNoAddr DEF TypeOK
      <3>2. CASE ~ReleaseWrite(p)
        BY <1>3, <3>2, AddStepCases
           DEF Add, Scan, ReadRange, RangeUnread, Pick, PickNet, PickFails, Reread,
               SetUp, SetUpFails, ReleaseRead, ReleaseFails, SetRoutes, Fail, Del
      <3> QED
        BY <3>1, <3>2
    <2> QED
      BY <1>1, <1>3, <2>1, FS_CardinalityType DEF Strays
  <1> QED
    BY <1>2, <1>3

\* An ADD strays by the step that does not read the range, and only there.
LEMMA StrayingStarts ==
    ASSUME SerialInv, IPRange # {}, NEW p \in Pods,
           Add(p) \/ Step(p) \/ Fail(p) \/ Del(p), NEW q \in Pods, Straying(q)'
    PROVE  /\ ~Write(q)
           /\ (p = q /\ RangeUnread(q)) \/ Straying(q)
  BY AddStepCases
     DEF SerialInv, ChosenInv, TypeOK, Straying, Goto, Add, Scan, ReadRange, RangeUnread,
         Pick, PickNet, PickFails, Reread, Write, SetUp, SetUpFails, ReleaseRead,
         ReleaseWrite, ReleaseFails, SetRoutes, Fail, Del

LEMMA StrayStep ==
    ASSUME Serial
    PROVE  StrayInv /\ [Next]_vars => StrayInv'
  <1> SUFFICES ASSUME StrayInv, [Next]_vars PROVE StrayInv'
    OBVIOUS
  <1>s. SerialInv /\ SerialInv' /\ TypeOK
    BY SerialStep DEF StrayInv, SerialInv, ChosenInv
  <1>u. CASE UNCHANGED vars
    BY <1>s, <1>u DEF vars, StrayInv, StraysCounted, Strays, Straying
  <1>n. CASE Next
    <2> PICK p \in Pods : Add(p) \/ Step(p) \/ Fail(p) \/ Del(p)
      BY <1>n DEF Next
    <2> SUFFICES ASSUME IPRange # {}
                 PROVE  /\ Cardinality(Strays') <= errors'
                        /\ \A q \in Pods : Straying(q)' => Cardinality(Strays') < errors'
      BY <1>s DEF StrayInv, StraysCounted
    <2>1. /\ errors \in Nat /\ errors' \in Nat
          /\ IF RangeUnread(p) THEN errors' = errors + 1 ELSE errors' = errors
      BY <1>s, ErrorsGrow
    <2>2. /\ Cardinality(Strays) \in Nat
          /\ IF Write(p) /\ Straying(p)
             THEN Cardinality(Strays') = Cardinality(Strays) + 1
             ELSE Strays' = Strays
      BY <1>s, StraysGrow
    <2>3. /\ Cardinality(Strays) <= errors
          /\ \A q \in Pods : Straying(q) => Cardinality(Strays) < errors
      BY DEF StrayInv, StraysCounted
    <2>4. Cardinality(Strays') <= errors'
      BY <2>1, <2>2, <2>3
    <2>5. ASSUME NEW q \in Pods, Straying(q)'
          PROVE  Cardinality(Strays') < errors'
      <3>1. ~Write(q) /\ ((p = q /\ RangeUnread(q)) \/ Straying(q))
        BY <1>s, <2>5, StrayingStarts
      <3>2. CASE p = q /\ RangeUnread(q)
        BY <2>1, <2>2, <2>3, <3>1, <3>2
      <3>3. CASE Straying(q) /\ ~Write(p)
        BY <2>1, <2>2, <2>3, <3>3
      <3>4. CASE Straying(q) /\ Write(p)
        <4>1. p = q
          BY <1>s, <3>4 DEF SerialInv, OneBusy, Busy, Ended, Straying, Write
        <4> QED
          BY <3>1, <3>4, <4>1
      <3> QED
        BY <3>1, <3>2, <3>3, <3>4
    <2> QED
      BY <2>4, <2>5
  <1> QED
    BY <1>u, <1>n

FullInv == StrayInv /\ FullMeansFull

LEMMA FullInit == Init => FullInv
  BY StrayInit DEF Init, FullInv, FullMeansFull

\* What the range misses only gets less.
LEMMA MissingFalls ==
    ASSUME SerialInv, NEW p \in Pods, Add(p) \/ Step(p) \/ Fail(p) \/ Del(p)
    PROVE  /\ Cardinality(IPRange \ record) \in Nat
           /\ Cardinality(IPRange \ record') \in Nat
           /\ Cardinality(IPRange \ record') <= Cardinality(IPRange \ record)
  <1>1. record \subseteq record'
    BY RecordGrows
  <1>2. IsFiniteSet(IPRange \ record) /\ (IPRange \ record') \in SUBSET (IPRange \ record)
    BY <1>1, RangeFinite, FS_Difference
  <1>3. /\ IsFiniteSet(IPRange \ record')
        /\ Cardinality(IPRange \ record') <= Cardinality(IPRange \ record)
    BY <1>2, FS_Subset
  <1> QED
    BY <1>2, <1>3, FS_CardinalityType

LEMMA FullStep ==
    ASSUME Serial
    PROVE  FullInv /\ [Next]_vars => FullInv'
  <1> SUFFICES ASSUME FullInv, [Next]_vars PROVE FullInv'
    OBVIOUS
  <1>s. StrayInv /\ StrayInv' /\ SerialInv /\ TypeOK
    BY StrayStep DEF FullInv, StrayInv, SerialInv, ChosenInv
  <1>u. CASE UNCHANGED vars
    BY <1>s, <1>u DEF vars, FullInv, FullMeansFull
  <1>n. CASE Next
    <2> PICK p \in Pods : Add(p) \/ Step(p) \/ Fail(p) \/ Del(p)
      BY <1>n DEF Next
    <2>1. /\ Cardinality(IPRange \ record) \in Nat
          /\ Cardinality(IPRange \ record') \in Nat
          /\ Cardinality(IPRange \ record') <= Cardinality(IPRange \ record)
          /\ errors \in Nat /\ errors' \in Nat /\ errors <= errors'
      BY <1>s, MissingFalls, ErrorsGrow
    <2>2. ASSUME PickFails(p)
          PROVE  Cardinality(IPRange \ record) <= errors
      <3>1. seen[p] = record /\ IPRange # {} /\ Entries(record) = Cardinality(IPRange)
        BY <1>s, <2>2 DEF PickFails, Full, SerialInv, Fresh
      <3>2. Cardinality(IPRange \ record) = Cardinality(Strays)
        BY <1>s, <3>1, RecordFinite, CountedMeansNearlyAll DEF Strays
      <3> QED
        BY <1>s, <3>1, <3>2 DEF StrayInv, StraysCounted
    <2>3. \A q \in Pods : pc'[q] = "full" => pc[q] = "full" \/ (q = p /\ PickFails(p))
      BY <1>s, AddStepCases
         DEF TypeOK, Goto, Add, Scan, ReadRange, RangeUnread, Pick, PickNet, Reread,
             Write, SetUp, SetUpFails, ReleaseRead, ReleaseWrite, ReleaseFails,
             SetRoutes, Fail, Del, PickFails
    <2>4. FullMeansFull'
      <3> SUFFICES ASSUME NEW q \in Pods, pc'[q] = "full"
                   PROVE  Cardinality(IPRange \ record') <= errors'
        BY DEF FullMeansFull
      <3>1. Cardinality(IPRange \ record) <= errors
        BY <2>2, <2>3 DEF FullInv, FullMeansFull
      <3> QED
        BY <2>1, <3>1
    <2> QED
      BY <1>s, <2>4 DEF FullInv
  <1> QED
    BY <1>u, <1>n

\* One ADD at a time: an ADD is told that all addresses are used only when all of
\* the range are, but for one for each time that the range's key could not be read.
\* So the count is right for as long as it can be read, although an empty record
\* counts for one.
THEOREM FullOnlyWhenFull ==
    ASSUME Serial
    PROVE  Spec => []FullMeansFull
  BY FullInit, FullStep, PTL DEF Spec, FullInv

-----------------------------------------------------------------------------
(***************************************************************************)
(* One ADD at a time, the steps are those of the atomic directory.         *)
(***************************************************************************)

\* What a step leaves alone, the directory sees left alone.
LEMMA SameDirectory ==
    ASSUME TypeOK, NEW p \in Pods, record' = record,
           \A q \in Pods : q # p => pc'[q] = pc[q] /\ ip'[q] = ip[q],
           IF Owned(p) THEN Owned(p)' /\ ip'[p] = ip[p] ELSE ~Owned(p)'
    PROVE  UNCHANGED <<record, AddrOf>>
  BY DEF AddrOf, Owned

\* A pod that loses its address leaves the directory, and one that had none is
\* not seen to go.
LEMMA LosingLeaves ==
    ASSUME SerialInv, NEW p \in Pods, record' = record,
           \A q \in Pods : q # p => pc'[q] = pc[q] /\ ip'[q] = ip[q],
           ~Owned(p)'
    PROVE  Directory!Leave(p) \/ UNCHANGED <<record, AddrOf>>
  <1>1. CASE Owned(p)
    <2>1. AddrOf[p] # NoAddr
      BY <1>1, DrawnIsCandidate
         DEF AddrOf, SerialInv, ChosenInv, Chosen, Addrs, NoAddr
    <2>2. AddrOf' = [AddrOf EXCEPT ![p] = NoAddr]
      BY DEF AddrOf, Owned
    <2> QED
      BY <2>1, <2>2 DEF Directory!Leave
  <1>2. CASE ~Owned(p)
    BY <1>2, SameDirectory DEF SerialInv, ChosenInv
  <1> QED
    BY <1>1, <1>2

\* The write that gives a pod its address is the directory's one step.
LEMMA WriteHandsOut ==
    ASSUME SerialInv, NEW p \in Pods, Write(p)
    PROVE  Directory!HandOut(p) \/ Directory!UseUp
  <1>1. /\ record' = record \cup {ip[p]} /\ ip[p] \notin record
        /\ ip[p] \in Candidates /\ ~Owned(p)
    BY DrawnIsCandidate DEF Write, With, SerialInv, Fresh, ChosenInv, Chosen, Owned
  <1>2. \A q \in Pods : q # p => pc'[q] = pc[q] /\ ip'[q] = ip[q]
    BY DEF Write, SerialInv, ChosenInv, TypeOK, Goto
  <1>3. CASE ip[p] \in Reserved
    <2>1. ~Owned(p)'
      BY <1>3 DEF Write, Goto, Owned, SerialInv, ChosenInv, TypeOK
    <2>2. AddrOf' = AddrOf
      BY <1>1, <1>2, <2>1 DEF AddrOf, Owned
    <2> QED
      BY <1>1, <1>3, <2>2 DEF Directory!UseUp
  <1>4. CASE ip[p] \notin Reserved
    <2>1. Owned(p)' /\ ip'[p] = ip[p]
      BY <1>4 DEF Write, Goto, Owned, SerialInv, ChosenInv, TypeOK
    <2>2. AddrOf' = [AddrOf EXCEPT ![p] = ip[p]] /\ AddrOf[p] = NoAddr
      BY <1>1, <1>2, <2>1 DEF AddrOf, Owned
    <2> QED
      BY <1>1, <1>4, <2>2 DEF Directory!HandOut
  <1> QED
    BY <1>3, <1>4

LEMMA DirectoryStep ==
    ASSUME Serial
    PROVE  SerialInv /\ [Next]_vars => [Directory!Next]_(Directory!vars)
  <1> SUFFICES ASSUME SerialInv, [Next]_vars
               PROVE  Directory!Next \/ UNCHANGED <<record, AddrOf>>
    BY DEF Directory!vars
  <1>u. CASE UNCHANGED vars
    BY <1>u DEF vars, AddrOf, Owned
  <1>n. CASE Next
    <2> PICK p \in Pods : Add(p) \/ Step(p) \/ Fail(p) \/ Del(p)
      BY <1>n DEF Next
    <2>t. TypeOK
      BY DEF SerialInv, ChosenInv
    <2>o. \A q \in Pods : q # p => pc'[q] = pc[q] /\ ip'[q] = ip[q]
      BY <2>t, AddStepCases
         DEF TypeOK, Goto, Add, Scan, ReadRange, RangeUnread, Pick, PickNet, PickFails,
             Reread, Write, SetUp, SetUpFails, ReleaseRead, ReleaseWrite, ReleaseFails,
             SetRoutes, Fail, Del
    <2>1. CASE Write(p)
      BY <2>1, WriteHandsOut DEF Directory!Next
    <2>2. CASE Fail(p) \/ Del(p) \/ (SetUpFails(p) /\ ~HostGw)
      <3>1. record' = record /\ ~Owned(p)'
        BY <2>2, <2>t DEF Fail, Del, SetUpFails, Goto, Owned, TypeOK
      <3> QED
        BY <2>o, <3>1, LosingLeaves DEF Directory!Next
    <2>3. CASE \/ Add(p) \/ Scan(p) \/ ReadRange(p) \/ RangeUnread(p) \/ Pick(p)
               \/ PickNet(p) \/ PickFails(p) \/ Reread(p) \/ SetUp(p)
               \/ (SetUpFails(p) /\ HostGw) \/ ReleaseRead(p) \/ ReleaseFails(p)
               \/ SetRoutes(p)
      <3>1. /\ record' = record
            /\ IF Owned(p) THEN Owned(p)' /\ ip'[p] = ip[p] ELSE ~Owned(p)'
        BY <2>3, <2>t
           DEF Add, Scan, ReadRange, RangeUnread, Pick, PickNet, PickFails, Reread,
               SetUp, SetUpFails, ReleaseRead, ReleaseFails, SetRoutes, Goto, Owned, TypeOK
      <3> QED
        BY <2>t, <2>o, <3>1, SameDirectory
    <2>4. CASE ReleaseWrite(p)
      <3>1. record' = record \ {WithMask(ip[p])} /\ ip[p] \in Addrs
        BY <2>4, DrawnIsCandidate
           DEF ReleaseWrite, SerialInv, Fresh, ChosenInv, Chosen, Owned
      <3>2. record' = record
        BY <2>t, <3>1, MaskedIsNoAddr DEF TypeOK
      <3>3. Owned(p) /\ Owned(p)' /\ ip'[p] = ip[p]
        BY <2>4, <2>t DEF ReleaseWrite, Goto, Owned, TypeOK
      <3> QED
        BY <2>t, <2>o, <3>2, <3>3, SameDirectory
    <2> QED
      BY <2>1, <2>2, <2>3, <2>4, AddStepCases
  <1> QED
    BY <1>u, <1>n

\* One ADD at a time: the scan, the second read and the write back of UnusedIP are
\* together the one step of a directory that never gives an address twice, also
\* when ADDs fail in between and are repeated, and when host-gw "releases".
THEOREM ImplementsDirectory ==
    ASSUME Serial
    PROVE  Spec => DirectoryKept
  <1>1. Init => Directory!Init
    BY DEF Init, Directory!Init, AddrOf, Owned
  <1> QED
    BY <1>1, SerialInit, SerialStep, DirectoryStep, PTL
       DEF Spec, DirectoryKept, Directory!Spec

\* What the directory is for: every pod of it has an address of its own that is
\* one for pods, and it is taken.
THEOREM DirectoryKeepsApart == Directory!Spec => []Directory!OneOwner
  <1>0. NoAddr \notin Candidates
    BY CandidatesAreAddrs DEF Addrs, NoAddr
  <1> DEFINE Inv == Directory!OneOwner /\ AddrOf \in [Pods -> Candidates \cup {NoAddr}]
  <1>1. Directory!Init => Inv
    BY DEF Directory!Init, Directory!OneOwner
  <1>2. Inv /\ [Directory!Next]_(Directory!vars) => Inv'
    <2> SUFFICES ASSUME Inv, [Directory!Next]_(Directory!vars) PROVE Inv'
      OBVIOUS
    <2>1. ASSUME NEW p \in Pods, Directory!HandOut(p) PROVE Inv'
      <3> PICK a \in (Candidates \ Reserved) \ record :
                 record' = record \cup {a} /\ AddrOf' = [AddrOf EXCEPT ![p] = a]
        BY <2>1 DEF Directory!HandOut
      <3> QED
        BY <1>0 DEF Directory!OneOwner
    <2>2. ASSUME NEW p \in Pods, Directory!Leave(p) PROVE Inv'
      BY <2>2 DEF Directory!Leave, Directory!OneOwner
    <2>3. CASE Directory!UseUp
      BY <2>3 DEF Directory!UseUp, Directory!OneOwner
    <2>4. CASE UNCHANGED Directory!vars
      BY <2>4 DEF Directory!vars, Directory!OneOwner
    <2> QED
      BY <2>1, <2>2, <2>3, <2>4 DEF Directory!Next
  <1> QED
    BY <1>1, <1>2, PTL DEF Directory!Spec

-----------------------------------------------------------------------------
(***************************************************************************)
(* That an ADD ends: the draw always finds an address, and every step      *)
(* brings the ADD nearer to its end.                                       *)
(***************************************************************************)

\* Any ADDs interleave: until the range's key could not be read, what the record
\* holds, and what a process read there, was drawn from the range.
RangeOnly ==
    IPRange # {} /\ errors = 0 =>
        record \subseteq IPRange /\ \A p \in Pods : seen[p] \subseteq IPRange

RangeInv == ChosenInv /\ RangeOnly

LEMMA RangeInit == Init => RangeInv
  BY ChosenInit DEF Init, RangeInv, RangeOnly

LEMMA RangeStep == RangeInv /\ [Next]_vars => RangeInv'
  <1> SUFFICES ASSUME RangeInv, [Next]_vars PROVE RangeOnly'
    BY ChosenStep DEF RangeInv
  <1>c. ChosenInv /\ TypeOK
    BY DEF RangeInv, ChosenInv
  <1>u. CASE UNCHANGED vars
    BY <1>u DEF vars, RangeInv, RangeOnly
  <1>n. CASE Next
    <2> PICK p \in Pods : Add(p) \/ Step(p) \/ Fail(p) \/ Del(p)
      BY <1>n DEF Next
    <2> SUFFICES ASSUME IPRange # {}, errors' = 0
                 PROVE  record' \subseteq IPRange /\ \A q \in Pods : seen'[q] \subseteq IPRange
      BY DEF RangeOnly
    <2>0. errors = 0
      BY <1>c, ErrorsGrow
    <2>1. record \subseteq IPRange /\ \A q \in Pods : seen[q] \subseteq IPRange
      BY <2>0 DEF RangeInv, RangeOnly
    <2>2. record' \subseteq IPRange
      <3>1. CASE Write(p)
        BY <1>c, <2>0, <2>1, <3>1 DEF Write, With, ChosenInv, Chosen, Drawn
      <3>2. CASE ReleaseWrite(p)
        BY <2>1, <3>2 DEF ReleaseWrite
      <3>3. CASE record' = record
        BY <2>1, <3>3
      <3> QED
        BY <3>1, <3>2, <3>3, AddStepCases
           DEF Add, Scan, ReadRange, RangeUnread, Pick, PickNet, PickFails, Reread, SetUp,
               SetUpFails, ReleaseRead, ReleaseFails, SetRoutes, Fail, Del
    <2>3. \A q \in Pods : seen'[q] = seen[q] \/ seen'[q] = record \/ seen'[q] = {}
      BY <1>c, AddStepCases
         DEF TypeOK, Add, Scan, ReadRange, RangeUnread, Pick, PickNet, PickFails, Reread,
             Write, SetUp, SetUpFails, ReleaseRead, ReleaseWrite, ReleaseFails, SetRoutes,
             Fail, Del
    <2> QED
      BY <2>1, <2>2, <2>3
  <1> QED
    BY <1>u, <1>n

\* nextUnusedIP has nothing left to draw only after an error.
DryOnlyAfterError == \A p \in Pods : Dry(p) => errors > 0

\* With a range, and however ADDs interleave, an ADD that was not told that all the
\* addresses are used finds one that it has not seen used, and none draws from the
\* network, which may be used up without anybody saying so: unless the range's key
\* could not be read before, nextUnusedIP does not draw for ever.
THEOREM DrawNeverRunsDry ==
    ASSUME IPRange # {}
    PROVE  Spec => []DryOnlyAfterError
  <1>1. RangeInv => DryOnlyAfterError
    <2> SUFFICES ASSUME RangeInv, NEW p \in Pods, Dry(p), ~(errors > 0)
                 PROVE  FALSE
      BY DEF DryOnlyAfterError
    <2>1. errors = 0
      BY PodAddressesAssumption DEF RangeInv, ChosenInv, TypeOK
    <2>2. pc[p] # "pickNet"
      BY DEF RangeInv, ChosenInv, Chosen
    <2>3. ~Full(p) /\ seen[p] = IPRange
      BY <2>1, <2>2 DEF Dry, RangeInv, RangeOnly
    <2> QED
      BY <2>3 DEF Full, Entries
  <1> QED
    BY <1>1, RangeInit, RangeStep, PTL DEF Spec

\* The reserved addresses that may still be drawn, each of which sends an ADD round
\* once more.
Decoys == (Candidates \cap Reserved) \ record

Stage(p) ==
    CASE pc[p] = "scan"                -> 9
      [] pc[p] = "range"               -> 8
      [] pc[p] \in {"pick", "pickNet"} -> 7
      [] pc[p] = "reread"              -> 6
      [] pc[p] = "write"               -> 5
      [] pc[p] = "setup"               -> 4
      [] pc[p] = "relRead"             -> 3
      [] pc[p] = "relWrite"            -> 2
      [] pc[p] = "routes"              -> 1
      [] OTHER                         -> 0

\* What an ADD has before it: the steps to its end, and another round for each decoy.
Rank(p) == 10 * Cardinality(Decoys) + Stage(p)

MaxRank == 10 * Cardinality(Candidates \cap Reserved) + 9

Advances == \A p \in Pods :
    /\ Rank(p) \in 0..MaxRank
    /\ Step(p) => Rank(p)' < Rank(p)
    /\ Busy(p) => Rank(p)' <= Rank(p)

LEMMA StageRange == \A p \in Pods : Stage(p) \in 0..9
  BY DEF Stage

LEMMA DecoysFinite ==
    /\ IsFiniteSet(Decoys)
    /\ Cardinality(Decoys) \in 0..Cardinality(Candidates \cap Reserved)
    /\ Cardinality(Candidates \cap Reserved) \in Nat
  <1>0. IsFiniteSet(0..Last)
    BY PodAddressesAssumption, FS_Interval
  <1>1. (Candidates \cap Reserved) \in SUBSET (0..Last)
    BY CandidatesAreAddrs DEF Addrs
  <1>2. IsFiniteSet(Candidates \cap Reserved) /\ Decoys \in SUBSET (Candidates \cap Reserved)
    BY <1>0, <1>1, FS_Subset DEF Decoys
  <1> QED
    BY <1>2, FS_Subset, FS_CardinalityType

\* No step makes a reserved address free again, and the write of one uses it up.
LEMMA DecoysFall ==
    ASSUME SerialInv, NEW p \in Pods, Add(p) \/ Step(p) \/ Fail(p) \/ Del(p)
    PROVE  /\ Cardinality(Decoys') \in Nat
           /\ Cardinality(Decoys') <= Cardinality(Decoys)
           /\ Write(p) /\ ip[p] \in Reserved => Cardinality(Decoys') < Cardinality(Decoys)
  <1>1. Decoys' \in SUBSET Decoys
    BY RecordGrows DEF Decoys
  <1>2. /\ IsFiniteSet(Decoys') /\ Cardinality(Decoys') <= Cardinality(Decoys)
        /\ Cardinality(Decoys') = Cardinality(Decoys) => Decoys' = Decoys
    BY <1>1, DecoysFinite, FS_Subset
  <1>3. Cardinality(Decoys') \in Nat /\ Cardinality(Decoys) \in Nat
    BY <1>2, DecoysFinite, FS_CardinalityType
  <1>4. ASSUME Write(p), ip[p] \in Reserved
        PROVE  Decoys' # Decoys
    <2>1. record' = record \cup {ip[p]} /\ ip[p] \in Candidates \ record
      BY <1>4, DrawnIsCandidate DEF Write, With, SerialInv, Fresh, ChosenInv, Chosen
    <2>2. ip[p] \in Decoys /\ ip[p] \notin Decoys'
      BY <1>4, <2>1 DEF Decoys
    <2> QED
      BY <2>2
  <1> QED
    BY <1>2, <1>3, <1>4

LEMMA RankRange ==
    ASSUME NEW p \in Pods
    PROVE  Rank(p) \in 0..MaxRank
  BY DecoysFinite, StageRange DEF Rank, MaxRank

LEMMA RankFalls ==
    ASSUME SerialInv, NEW p \in Pods, NEW q \in Pods,
           Add(p) \/ Step(p) \/ Fail(p) \/ Del(p)
    PROVE  /\ Stage(q)' <= Stage(q) => Rank(q)' <= Rank(q)
           /\ Stage(q)' < Stage(q) => Rank(q)' < Rank(q)
           /\ p = q /\ Write(q) /\ ip[q] \in Reserved => Rank(q)' < Rank(q)
  <1> DEFINE before == Cardinality(Decoys)
             after  == Cardinality(Decoys')
  <1>1. before \in Nat /\ after \in Nat /\ after <= before
    BY DecoysFinite, DecoysFall
  <1>2. Stage(q) \in 0..9 /\ Stage(q)' \in 0..9
    BY StageRange DEF Stage
  <1>3. Rank(q) = 10 * before + Stage(q) /\ Rank(q)' = 10 * after + Stage(q)'
    BY DEF Rank
  <1>4. p = q /\ Write(q) /\ ip[q] \in Reserved => after < before
    BY DecoysFall
  <1> HIDE DEF before, after
  <1> QED
    BY <1>1, <1>2, <1>3, <1>4

LEMMA StageFalls ==
    ASSUME TypeOK, NEW p \in Pods, Step(p), ~(Write(p) /\ ip[p] \in Reserved)
    PROVE  Stage(p)' < Stage(p)
  BY DEF Step, Scan, ReadRange, RangeUnread, Pick, PickNet, PickFails, Reread, Write,
         SetUp, SetUpFails, ReleaseRead, ReleaseWrite, ReleaseFails, SetRoutes, Goto,
         Stage, TypeOK

\* One ADD at a time: every step of an ADD lowers a number that nothing else raises
\* while it runs, and that starts at 9 and 10 for each reserved address of the range.
\* So an ADD that is not stopped, and has something to draw, ends, after at most 29
\* steps when the range lies within one octet.
THEOREM EveryStepAdvances ==
    ASSUME Serial
    PROVE  Spec => [][Advances]_vars
  <1>1. SerialInv /\ [Next]_vars => [Advances]_vars
    <2> SUFFICES ASSUME SerialInv, Next, NEW q \in Pods
                 PROVE  /\ Rank(q) \in 0..MaxRank
                        /\ Step(q) => Rank(q)' < Rank(q)
                        /\ Busy(q) => Rank(q)' <= Rank(q)
      BY DEF Advances
    <2>t. TypeOK
      BY DEF SerialInv, ChosenInv
    <2>1. ASSUME Step(q) PROVE Rank(q)' < Rank(q)
      BY <2>1, <2>t, RankFalls, StageFalls
    <2>2. ASSUME Busy(q) PROVE Rank(q)' <= Rank(q)
      <3> PICK p \in Pods : Add(p) \/ Step(p) \/ Fail(p) \/ Del(p)
        BY DEF Next
      <3>1. CASE p # q
        <4>1. pc'[q] = pc[q]
          BY <2>t, <3>1, AddStepCases
             DEF TypeOK, Goto, Add, Scan, ReadRange, RangeUnread, Pick, PickNet,
                 PickFails, Reread, Write, SetUp, SetUpFails, ReleaseRead, ReleaseWrite,
                 ReleaseFails, SetRoutes, Fail, Del
        <4>2. Stage(q)' = Stage(q) /\ Stage(q) \in 0..9
          BY <4>1, StageRange DEF Stage
        <4> QED
          BY <4>2, RankFalls
      <3>2. CASE p = q /\ Step(p)
        <4>1. Rank(q) \in Nat /\ Rank(q)' \in Nat
          <5>1. Stage(q) \in 0..9 /\ Stage(q)' \in 0..9
            BY StageRange DEF Stage
          <5>2. Cardinality(Decoys) \in Nat /\ Cardinality(Decoys') \in Nat
            BY DecoysFinite, DecoysFall
          <5> QED
            BY <5>1, <5>2 DEF Rank
        <4> QED
          BY <3>2, <2>1, <4>1
      <3>3. CASE p = q /\ (Add(p) \/ Del(p))
        BY <2>2, <3>3 DEF Add, Del, Busy, Ended
      <3>4. CASE p = q /\ Fail(p)
        <4>1. Stage(q)' = 0 /\ Stage(q) \in 0..9
          BY <2>t, <3>4, StageRange DEF Fail, Goto, Stage, TypeOK
        <4> QED
          BY <4>1, RankFalls
      <3> QED
        BY <3>1, <3>2, <3>3, <3>4
    <2> QED
      BY <2>1, <2>2, RankRange
  <1> QED
    BY <1>1, SerialInit, SerialStep, PTL DEF Spec

=============================================================================
