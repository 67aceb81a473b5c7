---------------------------- MODULE PodAddresses ----------------------------
(***************************************************************************)
(* How a pod gets its address (ipam/ipam.go, UnusedIP, Set.IPs and         *)
(* Release.IPs, as the plugins' Bootstrap calls them).                     *)
(*                                                                         *)
(* One node, whose network SubnetPool has settled.  The addresses its pods *)
(* use are one etcd value, the record, which every ADD reads, extends and  *)
(* writes back as a whole; the kubelet runs the ADDs of different pods as  *)
(* different processes.  Addresses count from the node's network, so that  *)
(* a % B is the last octet of address a, and an address from B on lies in  *)
(* a later octet, as a range across a carry has it.  Etcd's Get and Set    *)
(* are one action each; a process can be killed, or get an error, between  *)
(* any two.                                                                *)
(***************************************************************************)
EXTENDS Integers, FiniteSets

CONSTANTS
    Pods,       \* the pods of the node
    B,          \* the values of an octet, 256 in the code
    Last,       \* the last address considered
    IPRange,    \* the addresses of the configured range; {}: no range key, as
                \* when the range has one address only (GenIpRange)
    HostGw,     \* TRUE: the host-gw plugin, which goes on after a failed set-up
    Serial,     \* TRUE: the kubelet adds one pod at a time
    MaxErrors   \* bound: how often the range's key cannot be read

ASSUME PodAddressesAssumption ==
    /\ B \in Nat /\ B >= 5
    /\ Last \in Nat /\ Last >= B - 2
    /\ IPRange \subseteq 0..Last /\ Cardinality(IPRange) # 1
    /\ HostGw \in BOOLEAN /\ Serial \in BOOLEAN
    /\ MaxErrors \in Nat

VARIABLES
    record,     \* etcd: the <host>/<net> key; {} is the empty value
    pc,         \* the next step of each pod's ADD
    seen,       \* local: the record as last read
    ip,         \* local: the address chosen; the address of a pod that is up
    errors      \* how often the range's key could not be read

vars == <<record, pc, seen, ip, errors>>

Addrs == 0..Last
NoAddr == -1

\* isRetainIP and isGatewayIP look at the last octet only: x.x.x.0, x.x.x.1.
Reserved == {a \in Addrs : a % B \in {0, 1}}

\* What the draw without a range takes: the gateway plus 2..253.
Network == 3 .. (B - 2)

\* What is ever drawn.
Candidates == IPRange \cup Network

\* The string "<address>/24", which is no member of the record.
WithMask(a) == Last + 1 + a

\* len(ipsMap): splitting an empty record gives one empty name.
Entries(r) == IF r = {} THEN 1 ELSE Cardinality(r)

\* Set.IPs: an address that is there already is not written a second time.
With(r, a) == r \cup {a}

Ended == {"idle", "full", "up"}
Steps == {"scan", "range", "pick", "pickNet", "reread", "write", "setup",
          "relRead", "relWrite", "routes"}

Busy(p) == pc[p] \notin Ended
Goto(p, s) == pc' = [pc EXCEPT ![p] = s]

----------------------------------------------------------------------------
Init ==
    /\ record = {}
    /\ pc = [p \in Pods |-> "idle"]
    /\ seen = [p \in Pods |-> {}]
    /\ ip = [p \in Pods |-> NoAddr]
    /\ errors = 0

\* The kubelet runs ADD, again when an earlier one failed.
Add(p) ==
    /\ pc[p] \in {"idle", "full"}
    /\ Serial => \A q \in Pods : ~Busy(q)
    /\ Goto(p, "scan")
    /\ UNCHANGED <<record, seen, ip, errors>>

\* nextUnusedIP reads the record.
Scan(p) ==
    /\ pc[p] = "scan"
    /\ seen' = [seen EXCEPT ![p] = record]
    /\ Goto(p, "range")
    /\ UNCHANGED <<record, ip, errors>>

\* It looks for the range's key and reads it.
ReadRange(p) ==
    /\ pc[p] = "range"
    /\ Goto(p, IF IPRange # {} THEN "pick" ELSE "pickNet")
    /\ UNCHANGED <<record, seen, ip, errors>>

\* An error of either read is no error of the ADD: it goes on as if there were no
\* range.
RangeUnread(p) ==
    /\ pc[p] = "range"
    /\ IPRange # {}
    /\ errors < MaxErrors
    /\ errors' = errors + 1
    /\ Goto(p, "pickNet")
    /\ UNCHANGED <<record, seen, ip>>

Full_CountsFromOne(p) == IPRange # {} /\ Entries(seen[p]) + 1 = Cardinality(IPRange)

\* Only the range is ever found to be used up.
Full(p) == IPRange # {} /\ Entries(seen[p]) = Cardinality(IPRange)

Pick_IgnoresRecord(p) ==
    /\ pc[p] = "pick"
    /\ ~Full(p)
    /\ \E a \in IPRange : ip' = [ip EXCEPT ![p] = a]
    /\ Goto(p, "reread")
    /\ UNCHANGED <<record, seen, errors>>

\* It draws from the range until it has an address that was not in the record:
\* for ever when there is none and Full does not say so.
Pick(p) ==
    /\ pc[p] = "pick"
    /\ ~Full(p)
    /\ \E a \in IPRange \ seen[p] : ip' = [ip EXCEPT ![p] = a]
    /\ Goto(p, "reread")
    /\ UNCHANGED <<record, seen, errors>>

\* Or from the network, where nothing is ever found to be used up.
PickNet(p) ==
    /\ pc[p] = "pickNet"
    /\ \E a \in Network \ seen[p] : ip' = [ip EXCEPT ![p] = a]
    /\ Goto(p, "reread")
    /\ UNCHANGED <<record, seen, errors>>

\* "all of the ips are used".
PickFails(p) ==
    /\ pc[p] = "pick"
    /\ Full(p)
    /\ seen' = [seen EXCEPT ![p] = {}]
    /\ Goto(p, "full")
    /\ UNCHANGED <<record, ip, errors>>

\* Set.IPs reads the record again ...
Reread(p) ==
    /\ pc[p] = "reread"
    /\ seen' = [seen EXCEPT ![p] = record]
    /\ Goto(p, "write")
    /\ UNCHANGED <<record, ip, errors>>

Write_SkipsReserved(p) ==
    /\ pc[p] = "write"
    /\ record' = IF ip[p] \in Reserved THEN record ELSE With(seen[p], ip[p])
    /\ seen' = [seen EXCEPT ![p] = {}]
    /\ IF ip[p] \in Reserved
       THEN Goto(p, "scan") /\ ip' = [ip EXCEPT ![p] = NoAddr]
       ELSE Goto(p, "setup") /\ UNCHANGED ip
    /\ UNCHANGED errors

Write_HandsOutGateway(p) ==
    /\ pc[p] = "write"
    /\ record' = With(seen[p], ip[p])
    /\ seen' = [seen EXCEPT ![p] = {}]
    /\ Goto(p, "setup")
    /\ UNCHANGED <<ip, errors>>

Write_WithMask(p) ==
    /\ pc[p] = "write"
    /\ record' = With(seen[p], WithMask(ip[p]))
    /\ seen' = [seen EXCEPT ![p] = {}]
    /\ Goto(p, "setup")
    /\ UNCHANGED <<ip, errors>>

\* ... and writes it with the address.  UnusedIP has then used up the gateway's
\* or the retained address and draws again, or returns.
Write(p) ==
    /\ pc[p] = "write"
    /\ record' = With(seen[p], ip[p])
    /\ seen' = [seen EXCEPT ![p] = {}]
    /\ IF ip[p] \in Reserved
       THEN Goto(p, "scan") /\ ip' = [ip EXCEPT ![p] = NoAddr]
       ELSE Goto(p, "setup") /\ UNCHANGED ip
    /\ UNCHANGED errors

\* The plugin makes the pod's device and gives it the address.
SetUp(p) ==
    /\ pc[p] = "setup"
    /\ Goto(p, IF HostGw THEN "routes" ELSE "up")
    /\ UNCHANGED <<record, seen, ip, errors>>

\* When that fails host-gw releases the address and goes on; the others return
\* the error.
SetUpFails(p) ==
    /\ pc[p] = "setup"
    /\ IF HostGw
       THEN Goto(p, "relRead") /\ UNCHANGED ip
       ELSE Goto(p, "idle") /\ ip' = [ip EXCEPT ![p] = NoAddr]
    /\ UNCHANGED <<record, seen, errors>>

\* Release.IPs reads the record ...
ReleaseRead(p) ==
    /\ pc[p] = "relRead"
    /\ seen' = [seen EXCEPT ![p] = record]
    /\ Goto(p, "relWrite")
    /\ UNCHANGED <<record, ip, errors>>

ReleaseWrite_Matches(p) ==
    /\ pc[p] = "relWrite"
    /\ record' = seen[p] \ {ip[p]}
    /\ seen' = [seen EXCEPT ![p] = {}]
    /\ Goto(p, "routes")
    /\ UNCHANGED <<ip, errors>>

\* ... and writes it without the string it is given, which is the address with
\* its mask.
ReleaseWrite(p) ==
    /\ pc[p] = "relWrite"
    /\ record' = seen[p] \ {WithMask(ip[p])}
    /\ seen' = [seen EXCEPT ![p] = {}]
    /\ Goto(p, "routes")
    /\ UNCHANGED <<ip, errors>>

\* An error of either is only logged.
ReleaseFails(p) ==
    /\ pc[p] \in {"relRead", "relWrite"}
    /\ seen' = [seen EXCEPT ![p] = {}]
    /\ Goto(p, "routes")
    /\ UNCHANGED <<record, ip, errors>>

\* host-gw sets the routes to the other nodes and reports the pod as set up.
SetRoutes(p) ==
    /\ pc[p] = "routes"
    /\ Goto(p, "up")
    /\ UNCHANGED <<record, seen, ip, errors>>

\* The process is killed, or a step returns an error the plugin passes on.  The
\* kubelet then tears the namespace down, and the record stays as it is.
Fail(p) ==
    /\ Busy(p)
    /\ Goto(p, "idle")
    /\ seen' = [seen EXCEPT ![p] = {}]
    /\ ip' = [ip EXCEPT ![p] = NoAddr]
    /\ UNCHANGED <<record, errors>>

\* DEL: every plugin's Unmount is empty.
Del(p) ==
    /\ pc[p] = "up"
    /\ Goto(p, "idle")
    /\ ip' = [ip EXCEPT ![p] = NoAddr]
    /\ UNCHANGED <<record, seen, errors>>

Step(p) ==
    \/ Scan(p) \/ ReadRange(p) \/ RangeUnread(p) \/ Pick(p) \/ PickNet(p)
    \/ PickFails(p) \/ Reread(p) \/ Write(p) \/ SetUp(p) \/ SetUpFails(p)
    \/ ReleaseRead(p) \/ ReleaseWrite(p) \/ ReleaseFails(p) \/ SetRoutes(p)

Next == \E p \in Pods : Add(p) \/ Step(p) \/ Fail(p) \/ Del(p)

Spec == Init /\ [][Next]_vars

\* A process that runs takes its next step.
FairSpec == Spec /\ \A p \in Pods : WF_vars(Step(p))

----------------------------------------------------------------------------
TypeOK ==
    /\ record \subseteq Addrs
    /\ pc \in [Pods -> Ended \cup Steps]
    /\ seen \in [Pods -> SUBSET Addrs]
    /\ ip \in [Pods -> Addrs \cup {NoAddr}]
    /\ errors \in 0..MaxErrors

\* From the step that writes it down to the DEL, a pod's address is taken.
Owned(p) == pc[p] \in {"setup", "relRead", "relWrite", "routes", "up"}

\* "Take the slot first ... or two pods' addresses conflict" (ipam.go:847-849):
\* no two pods have one address, across failures, retries and DELs.
PodIPsDistinct ==
    \A p, q \in Pods : p # q /\ Owned(p) /\ Owned(q) => ip[p] # ip[q]

\* The address of a pod is in the record, so that it is not handed out again.
PodIPRecorded == \A p \in Pods : Owned(p) => ip[p] \in record

\* Addresses that end in .0 or .1 go to no pod, however ADDs interleave
\* (ipam.go:840-846), and one out of the configured range only once the range's
\* key could not be read (ipam.go:740-766).
NoReservedAddress ==
    \A p \in Pods : Owned(p) =>
        /\ ip[p] \notin Reserved
        /\ \/ ip[p] \in IPRange
           \/ ip[p] \in Network /\ (IPRange = {} \/ errors > 0)

\* "all of the ips are used" (ipam.go:749) compares two counts.  It is true of the
\* range but for one address for each time that its key could not be read: what
\* was then drawn elsewhere is counted as if it were of the range.
FullMeansFull ==
    \A p \in Pods : pc[p] = "full" => Cardinality(IPRange \ record) <= errors

\* Nothing is left to draw, and the code draws on (ipam.go:747-760, 772-782).
Dry(p) ==
    \/ pc[p] = "pick" /\ ~Full(p) /\ IPRange \subseteq seen[p]
    \/ pc[p] = "pickNet" /\ Network \subseteq seen[p]

\* With a range every ADD comes to an end, and using up reserved addresses is not
\* repeated for ever; an ADD draws for ever only once the range's key could not be
\* read, as the count then misses the used-up range and the network has none.
AddEnds == \A p \in Pods : Busy(p) ~> ~Busy(p) \/ (errors > 0 /\ Dry(p))

----------------------------------------------------------------------------
\* What a pod has, as the directory sees it.
AddrOf == [p \in Pods |-> IF Owned(p) THEN ip[p] ELSE NoAddr]

\* What the record holds is taken, and a pod has its address from the step that
\* writes it down.
Directory == INSTANCE PodDirectory
                 WITH Addrs <- Candidates \ Reserved, Kept <- Candidates \cap Reserved,
                      taken <- record, addrOf <- AddrOf

\* The reads and writes of the record are those of an atomic directory: no address
\* is ever given twice, not even after its pod has failed or gone (ipam.go:847-849).
DirectoryKept == Directory!Spec

=============================================================================
