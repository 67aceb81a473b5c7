---------------------------- MODULE WatchDaemon -----------------------------
(***************************************************************************)
(* How the vxlan mode keeps one watching daemon per node (vxlan.go,        *)
(* startWatchNodeChange; mapwatcher.go, StartMapWatcher; utils/daemon.go). *)
(*                                                                         *)
(* An ADD takes the health port for the sign of a living daemon.  When the *)
(* port is bound it repairs the pid file; otherwise it starts a daemon and *)
(* writes the pid file.  The daemon is the same program executed again, so *)
(* it comes through the same check before it watches; it binds the port    *)
(* only after all watches are made, seconds later.  An ADD that cannot     *)
(* start the child takes itself for it, as StartDeamon drops the error,    *)
(* and watches alone.  A daemon that cannot bind the port returns from the *)
(* function it was to run and dies of the nil process StartDeamon gives to *)
(* its child.                                                              *)
(***************************************************************************)
EXTENDS Naturals, FiniteSets

CONSTANTS
    Pids,       \* process identifiers
    NoPid,      \* nobody has the port / there is no pid file
    Empty,      \* the content of a pid file that is open for writing
    MaxAdds,    \* bound: ADDs at the same time
    MaxFaults   \* bound: kills of a process and failures of an ADD

ASSUME WatchDaemonAssumption ==
    /\ NoPid \notin Pids /\ Empty \notin Pids /\ NoPid # Empty
    /\ MaxAdds \in Nat /\ MaxFaults \in Nat

VARIABLES
    pc,         \* the next step of each process, "none" if there is none
    role,       \* an "add", the "child" of StartDeamon, or an ADD left "alone"
    pid,        \* local to it: the pid it writes into the pid file
    port,       \* the process that has the health port
    file,       \* the content of the pid file
    faults      \* faults so far, for the bound

vars == <<pc, role, pid, port, file, faults>>

Goto(p, l) == pc' = [pc EXCEPT ![p] = l]

Adding == {p \in Pids : role[p] # "child" /\ pc[p] # "none"}

Init ==
    /\ pc = [p \in Pids |-> "none"]
    /\ role = [p \in Pids |-> "add"]
    /\ pid = [p \in Pids |-> NoPid]
    /\ port = NoPid
    /\ file = NoPid
    /\ faults = 0

\* The kubelet calls the plugin for a pod.
Start(p) ==
    /\ pc[p] = "none"
    /\ Cardinality(Adding) < MaxAdds
    /\ Goto(p, "check")
    /\ UNCHANGED <<role, pid, port, file, faults>>

Check_RunsItself(p) ==
    /\ pc[p] = "check"
    /\ IF port # NoPid
       THEN Goto(p, "compare") /\ pid' = [pid EXCEPT ![p] = port]
       ELSE Goto(p, "watch") /\ UNCHANGED pid
    /\ UNCHANGED <<role, port, file, faults>>

\* GetPidByPort: who has the port?  The child of StartDeamon asks as well.
Check(p) ==
    /\ pc[p] = "check"
    /\ IF port # NoPid
       THEN /\ Goto(p, "compare")
            /\ pid' = [pid EXCEPT ![p] = port]
       ELSE /\ Goto(p, IF role[p] = "child" THEN "watch" ELSE "spawn")
            /\ UNCHANGED pid
    /\ UNCHANGED <<role, port, file, faults>>

\* The process goes on with the rest of its ADD, also the child if it came here.
Return(p) ==
    /\ Goto(p, "none")
    /\ role' = [role EXCEPT ![p] = "add"]
    /\ pid' = [pid EXCEPT ![p] = NoPid]

Compare_ExistsOnly(p) ==
    /\ pc[p] = "compare"
    /\ IF file # NoPid
       THEN Return(p)
       ELSE Goto(p, "truncate") /\ UNCHANGED <<role, pid>>
    /\ UNCHANGED <<port, file, faults>>

\* Is there a pid file, and does it name the process that has the port?
Compare(p) ==
    /\ pc[p] = "compare"
    /\ IF file = pid[p]
       THEN Return(p)
       ELSE /\ Goto(p, IF file = NoPid THEN "truncate" ELSE "delete")
            /\ UNCHANGED <<role, pid>>
    /\ UNCHANGED <<port, file, faults>>

\* Who has the file open goes on with one that has no name any more.
Delete(p) ==
    /\ pc[p] = "delete"
    /\ file' = NoPid
    /\ pc' = [q \in Pids |-> CASE q = p           -> "truncate"
                              [] pc[q] = "write" -> "unlinked"
                              [] OTHER           -> pc[q]]
    /\ UNCHANGED <<role, pid, port, faults>>

\* CreateFile opens the file, emptying it, and then writes the pid.
Truncate(p) ==
    /\ pc[p] = "truncate"
    /\ file' = Empty
    /\ Goto(p, "write")
    /\ UNCHANGED <<role, pid, port, faults>>

\* Over what another process has written since, two pids of different lengths can
\* make up any third one.
Write(p) ==
    /\ pc[p] = "write"
    /\ file' \in IF file \in Pids \ {pid[p]} THEN Pids ELSE {pid[p]}
    /\ Return(p)
    /\ UNCHANGED <<port, faults>>

WriteUnlinked(p) ==
    /\ pc[p] = "unlinked"
    /\ Return(p)
    /\ UNCHANGED <<port, file, faults>>

\* StartMapWatcher starts the child and then writes its pid to the pid file.
Spawn(p) ==
    /\ pc[p] = "spawn"
    /\ \E d \in Pids :
           /\ pc[d] = "none"
           /\ pc' = [pc EXCEPT ![p] = "truncate", ![d] = "check"]
           /\ role' = [role EXCEPT ![d] = "child"]
           /\ pid' = [pid EXCEPT ![p] = d]
    /\ UNCHANGED <<port, file, faults>>

\* Or the system starts no child.  StartDeamon drops the error, and as it has no
\* child it runs the child's function in the ADD.
RebornFails(p) ==
    /\ pc[p] = "spawn"
    /\ faults < MaxFaults
    /\ faults' = faults + 1
    /\ Goto(p, "watch")
    /\ role' = [role EXCEPT ![p] = "alone"]
    /\ UNCHANGED <<pid, port, file>>

\* Or the initial copy of the records fails, and the ADD with it.
SpawnFails(p) ==
    /\ pc[p] = "spawn"
    /\ faults < MaxFaults
    /\ faults' = faults + 1
    /\ Return(p)
    /\ UNCHANGED <<port, file>>

Listen_SharesPort(p) ==
    /\ pc[p] = "watch"
    /\ port' = p
    /\ Goto(p, "serve")
    /\ UNCHANGED <<role, pid, file, faults>>

Listen_Stays(p) ==
    /\ pc[p] = "watch"
    /\ port = NoPid
    /\ port' = p
    /\ Goto(p, "serve")
    /\ UNCHANGED <<role, pid, file, faults>>

\* The daemon has made its watches and starts the health server, or dies.
Listen(p) ==
    /\ pc[p] = "watch"
    /\ IF port = NoPid
       THEN /\ port' = p
            /\ Goto(p, "serve")
            /\ UNCHANGED <<role, pid>>
       ELSE /\ Return(p)
            /\ UNCHANGED port
    /\ UNCHANGED <<file, faults>>

\* A process is killed; the daemon's port is free again.
Kill(p) ==
    /\ pc[p] # "none"
    /\ faults < MaxFaults
    /\ faults' = faults + 1
    /\ port' = IF port = p THEN NoPid ELSE port
    /\ Return(p)
    /\ UNCHANGED file

Step(p) ==
    \/ Check(p) \/ Compare(p) \/ Delete(p) \/ Truncate(p) \/ Write(p)
    \/ WriteUnlinked(p) \/ Spawn(p) \/ Listen(p)

Fault(p) == RebornFails(p) \/ SpawnFails(p) \/ Kill(p)

Next == \E p \in Pids : Start(p) \/ Step(p) \/ Fault(p)

Spec == Init /\ [][Next]_vars

\* A process that can run does.
FairSpec == Spec /\ \A p \in Pids : WF_vars(Step(p))

\* Besides, pods keep being created on the node.
BusySpec == FairSpec /\ WF_vars(\E p \in Pids : Start(p))

----------------------------------------------------------------------------
\* The processes that watch etcd and write the pod map.
Watchers == {p \in Pids : pc[p] \in {"watch", "serve"}}

\* Types; besides, a process that watches is the child of StartDeamon, or an ADD that
\* could not start one, and the process that has the port is the one that serves.
TypeOK ==
    /\ pc \in [Pids -> {"none", "check", "compare", "delete", "truncate", "write",
                        "unlinked", "spawn", "watch", "serve"}]
    /\ role \in [Pids -> {"add", "child", "alone"}]
    /\ pid \in [Pids -> Pids \cup {NoPid}]
    /\ port \in Pids \cup {NoPid}
    /\ file \in Pids \cup {NoPid, Empty}
    /\ faults \in 0..MaxFaults
    /\ \A p \in Pids : pc[p] = "serve" <=> port = p
    /\ \A p \in Watchers : role[p] # "add"
    /\ \A p \in Pids : role[p] = "alone" => faults > 0 /\ p \in Watchers

\* However many ADDs start a daemon at the same time, in the end one is left: the
\* others find the port taken and end (mapprocessor.go:23, mapwatcher.go:58).
OneWatcherSurvives == <>[](Cardinality(Watchers) <= 1)

\* An ADD does not wait for the daemon, nor become it (daemon.go:16-31), but when
\* the child could not be started and the ADD got the port: any other process but
\* the child comes to its end.
AddsReturn ==
    \A p \in Pids :
        []<>(\/ pc[p] = "none" \/ role[p] = "child"
             \/ role[p] = "alone" /\ port = p)

\* Whatever the races between ADDs and deaths of the daemon left behind, later
\* ADDs bring a daemon up; from some time on the pid file names no other process,
\* and it names the daemon again and again (vxlan.go:42-51).  Not for good: an ADD
\* that finds the file just emptied by another one removes it and writes it anew,
\* and if that happens to each of them, in turn, it never names anybody.
DaemonComesBack ==
    /\ <>[](port # NoPid /\ file \in {port, Empty, NoPid})
    /\ []<>(file = port \/ \E p \in Pids : pc[p] = "unlinked")

=============================================================================
