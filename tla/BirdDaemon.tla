----------------------------- MODULE BirdDaemon -----------------------------
(***************************************************************************)
(* How an ADD of the ipip mode sets up what the pods of its node share     *)
(* (plugins/ipip/ipip.go, Bootstrap from the tunnel on; bird.go;           *)
(* gen_config.go): the address of tunl0, the configuration of bird, and    *)
(* bird itself, the daemon that tells the other nodes the way to this one. *)
(*                                                                         *)
(* Every ADD writes the configuration anew, for the nodes Kubernetes knows *)
(* at that time, and then starts bird, unless a pid file names a living    *)
(* process.  A bird that runs never reads the configuration again.  ADDs of *)
(* one node run at the same time and share the two files and the device.   *)
(***************************************************************************)
EXTENDS Naturals, FiniteSets

CONSTANTS
    Adds,       \* ADDs of the node that may run at the same time
    Pids,       \* process identifiers a bird can get
    Others,     \* the other nodes
    NoPid,      \* there is no pid file
    Empty,      \* the content of a file that is open for writing
    Garbled,    \* the content of a file two ADDs have written over each other
    MaxFaults   \* bound: kills, and pids that other programs take

ASSUME BirdDaemonAssumption ==
    /\ NoPid \notin Pids /\ Empty \notin Pids /\ NoPid # Empty
    /\ MaxFaults \in Nat

VARIABLES
    cluster,    \* Kubernetes: the other nodes it lists
    tunl,       \* kernel: whether tunl0 has its address
    cfg,        \* the neighbours in bird.cfg, or Empty or Garbled
    file,       \* the content of the pid file
    pc,         \* the next step of each ADD
    neighbors,  \* local to it: the neighbours it is going to write
    pid,        \* local to it: the pid it has read, or of the bird it started
    proc,       \* the process that has a pid: none, load and run (a bird), other
    loaded,     \* the neighbours each bird has read
    quiet,      \* auxiliary: cluster when the ADDs were last all done and one began
    since,      \* auxiliary: quiet when each bird was started
    faults      \* faults so far, for the bound

addVars == <<pc, neighbors, pid>>
birdVars == <<proc, loaded, since>>
vars == <<cluster, tunl, cfg, file, addVars, birdVars, quiet, faults>>

Goto(p, s) == pc' = [pc EXCEPT ![p] = s]

\* The ADD ends; its process is gone and with it what it has read.
End(p) ==
    /\ Goto(p, "none")
    /\ neighbors' = [neighbors EXCEPT ![p] = {}]
    /\ pid' = [pid EXCEPT ![p] = NoPid]

Ended == {p \in Adds : pc[p] = "none"}
OneByOne == Cardinality(Adds \ Ended) <= 1

Init ==
    /\ cluster = {}
    /\ tunl = FALSE
    /\ cfg = Empty
    /\ file = NoPid
    /\ pc = [p \in Adds |-> "none"]
    /\ neighbors = [p \in Adds |-> {}]
    /\ pid = [p \in Adds |-> NoPid]
    /\ proc = [d \in Pids |-> "none"]
    /\ loaded = [d \in Pids |-> {}]
    /\ quiet = {}
    /\ since = [d \in Pids |-> {}]
    /\ faults = 0

(***************************************************************************)
(* The ADD                                                                 *)
(***************************************************************************)

\* The pod has its address and its devices, which no other pod can see.
Start(p) ==
    /\ pc[p] = "none"
    /\ Goto(p, "address")
    /\ quiet' = IF Ended = Adds THEN cluster ELSE quiet
    /\ UNCHANGED <<cluster, tunl, cfg, file, neighbors, pid, birdVars, faults>>

FindAddress_Skips(p) ==
    /\ pc[p] = "address"
    /\ Goto(p, "setAddress")
    /\ UNCHANGED <<cluster, tunl, cfg, file, neighbors, pid, birdVars, quiet, faults>>

\* setIpForIpip: the address the device has is taken as it is ...
FindAddress(p) ==
    /\ pc[p] = "address"
    /\ Goto(p, IF tunl THEN "config" ELSE "setAddress")
    /\ UNCHANGED <<cluster, tunl, cfg, file, neighbors, pid, birdVars, quiet, faults>>

\* ... and else it gets one, which fails if another ADD was faster.
SetAddress(p) ==
    /\ pc[p] = "setAddress"
    /\ IF tunl
       THEN End(p) /\ UNCHANGED tunl
       ELSE /\ tunl' = TRUE
            /\ Goto(p, "config")
            /\ UNCHANGED <<neighbors, pid>>
    /\ UNCHANGED <<cluster, cfg, file, birdVars, quiet, faults>>

\* The nodes Kubernetes lists, but for this one.
AllOtherHostIP == cluster

GetConfig_Once(p) ==
    /\ pc[p] = "config"
    /\ IF cfg = Empty
       THEN /\ neighbors' = [neighbors EXCEPT ![p] = AllOtherHostIP]
            /\ Goto(p, "truncateConfig")
       ELSE /\ Goto(p, "find")
            /\ UNCHANGED neighbors
    /\ UNCHANGED <<cluster, tunl, cfg, file, pid, birdVars, quiet, faults>>

\* getBirdConfig: every other node becomes a neighbour.
GetConfig(p) ==
    /\ pc[p] = "config"
    /\ neighbors' = [neighbors EXCEPT ![p] = AllOtherHostIP]
    /\ Goto(p, "truncateConfig")
    /\ UNCHANGED <<cluster, tunl, cfg, file, pid, birdVars, quiet, faults>>

\* GenConfigFile, CreateFile: the file is opened, which empties it ...
TruncateConfig(p) ==
    /\ pc[p] = "truncateConfig"
    /\ cfg' = Empty
    /\ Goto(p, "writeConfig")
    /\ UNCHANGED <<cluster, tunl, file, neighbors, pid, birdVars, quiet, faults>>

\* ... and written from its beginning.  Of a longer text that another ADD has
\* written in between the end remains.
WriteConfig(p) ==
    /\ pc[p] = "writeConfig"
    /\ cfg' = IF \/ cfg = Garbled
                 \/ cfg # Empty /\ Cardinality(cfg) > Cardinality(neighbors[p])
              THEN Garbled
              ELSE neighbors[p]
    /\ neighbors' = [neighbors EXCEPT ![p] = {}]
    /\ Goto(p, "find")
    /\ UNCHANGED <<cluster, tunl, file, pid, birdVars, quiet, faults>>

\* StartBirdDaemon: is there a pid file?
Find(p) ==
    /\ pc[p] = "find"
    /\ Goto(p, IF file = NoPid THEN "start" ELSE "read")
    /\ UNCHANGED <<cluster, tunl, cfg, file, neighbors, pid, birdVars, quiet, faults>>

Read_IgnoresError(p) ==
    /\ pc[p] = "read"
    /\ pid' = [pid EXCEPT ![p] = file]
    /\ Goto(p, "alive")
    /\ UNCHANGED <<cluster, tunl, cfg, file, neighbors, birdVars, quiet, faults>>

\* It is read; another ADD may have deleted it by now.
Read(p) ==
    /\ pc[p] = "read"
    /\ IF file = NoPid
       THEN End(p)
       ELSE /\ pid' = [pid EXCEPT ![p] = file]
            /\ Goto(p, "alive")
            /\ UNCHANGED neighbors
    /\ UNCHANGED <<cluster, tunl, cfg, file, birdVars, quiet, faults>>

Running(d) == d \in Pids /\ proc[d] # "none"

\* Does /proc have an entry of that name?  Whichever process it is, it is taken
\* for bird and the ADD succeeds.
FoundAlive(p) ==
    /\ pc[p] = "alive"
    /\ Running(pid[p])
    /\ End(p)
    /\ UNCHANGED <<cluster, tunl, cfg, file, birdVars, quiet, faults>>

\* For an empty file the entry is /proc itself, and the conversion to a number
\* fails, and the ADD with it.
FoundEmpty(p) ==
    /\ pc[p] = "alive"
    /\ pid[p] = Empty
    /\ End(p)
    /\ UNCHANGED <<cluster, tunl, cfg, file, birdVars, quiet, faults>>

FoundDead_Trusts(p) ==
    /\ pc[p] = "alive"
    /\ pid[p] \in Pids /\ ~ Running(pid[p])
    /\ End(p)
    /\ UNCHANGED <<cluster, tunl, cfg, file, birdVars, quiet, faults>>

FoundDead(p) ==
    /\ pc[p] = "alive"
    /\ pid[p] \in Pids /\ ~ Running(pid[p])
    /\ pid' = [pid EXCEPT ![p] = NoPid]
    /\ Goto(p, "delete")
    /\ UNCHANGED <<cluster, tunl, cfg, file, neighbors, birdVars, quiet, faults>>

\* The pid file is deleted, whatever it says by now.  Who has it open goes on with
\* one that has no name any more.
Delete(p) ==
    /\ pc[p] = "delete"
    /\ file' = NoPid
    /\ pc' = [q \in Adds |-> CASE q = p           -> "start"
                              [] pc[q] = "write" -> "unlinked"
                              [] OTHER           -> pc[q]]
    /\ UNCHANGED <<cluster, tunl, cfg, neighbors, pid, birdVars, quiet, faults>>

\* A pid is free when no process has it, and no ADD is the parent of one that had.
Free == {d \in Pids : proc[d] = "none" /\ \A q \in Adds : pid[q] = d => pc[q] = "alive"}

StartBird(p) ==
    /\ pc[p] = "start"
    /\ \E d \in Free :
           /\ proc' = [proc EXCEPT ![d] = "load"]
           /\ since' = [since EXCEPT ![d] = quiet]
           /\ pid' = [pid EXCEPT ![p] = d]
    /\ Goto(p, "truncate")
    /\ UNCHANGED <<cluster, tunl, cfg, file, neighbors, loaded, quiet, faults>>

\* Its pid goes to the pid file, with CreateFile again, and the ADD succeeds.
Truncate(p) ==
    /\ pc[p] = "truncate"
    /\ file' = Empty
    /\ Goto(p, "write")
    /\ UNCHANGED <<cluster, tunl, cfg, neighbors, pid, birdVars, quiet, faults>>

\* Over what another ADD has written since, two pids of different lengths can make
\* up any third one.
Write(p) ==
    /\ pc[p] = "write"
    /\ file' \in IF file \in Pids \ {pid[p]} THEN Pids ELSE {pid[p]}
    /\ End(p)
    /\ UNCHANGED <<cluster, tunl, cfg, birdVars, quiet, faults>>

WriteUnlinked(p) ==
    /\ pc[p] = "unlinked"
    /\ End(p)
    /\ UNCHANGED <<cluster, tunl, cfg, file, birdVars, quiet, faults>>

Succeed(p) == FoundAlive(p) \/ Write(p) \/ WriteUnlinked(p)

(***************************************************************************)
(* Bird (external), the other nodes, and faults                            *)
(***************************************************************************)

Gone(d) ==
    /\ proc' = [proc EXCEPT ![d] = "none"]
    /\ loaded' = [loaded EXCEPT ![d] = {}]
    /\ since' = [since EXCEPT ![d] = {}]

\* Bird ends when the control socket belongs to another one or when it cannot
\* parse its configuration; an empty one has no router id.
Load(d) ==
    /\ proc[d] = "load"
    /\ IF cfg \in {Empty, Garbled} \/ \E e \in Pids : proc[e] = "run"
       THEN Gone(d)
       ELSE /\ proc' = [proc EXCEPT ![d] = "run"]
            /\ loaded' = [loaded EXCEPT ![d] = cfg]
            /\ UNCHANGED since
    /\ UNCHANGED <<cluster, tunl, cfg, file, addVars, quiet, faults>>

\* A node is added to the cluster.
Join(n) ==
    /\ n \notin cluster
    /\ cluster' = cluster \cup {n}
    /\ UNCHANGED <<tunl, cfg, file, addVars, birdVars, quiet, faults>>

\* An ADD is killed, for example when it has taken too long.
KillAdd(p) ==
    /\ pc[p] # "none"
    /\ faults < MaxFaults
    /\ faults' = faults + 1
    /\ End(p)
    /\ UNCHANGED <<cluster, tunl, cfg, file, birdVars, quiet>>

KillBird(d) ==
    /\ proc[d] \in {"load", "run"}
    /\ faults < MaxFaults
    /\ faults' = faults + 1
    /\ Gone(d)
    /\ UNCHANGED <<cluster, tunl, cfg, file, addVars, quiet>>

\* Another program gets a pid that a bird may have had, and ends.
Take(d) ==
    /\ d \in Free
    /\ faults < MaxFaults
    /\ faults' = faults + 1
    /\ proc' = [proc EXCEPT ![d] = "other"]
    /\ UNCHANGED <<cluster, tunl, cfg, file, addVars, loaded, since, quiet>>

Leave(d) ==
    /\ proc[d] = "other"
    /\ Gone(d)
    /\ UNCHANGED <<cluster, tunl, cfg, file, addVars, quiet, faults>>

Step(p) ==
    \/ FindAddress(p) \/ SetAddress(p) \/ GetConfig(p) \/ TruncateConfig(p)
    \/ WriteConfig(p) \/ Find(p) \/ Read(p) \/ FoundAlive(p) \/ FoundEmpty(p)
    \/ FoundDead(p) \/ Delete(p) \/ StartBird(p) \/ Truncate(p) \/ Write(p)
    \/ WriteUnlinked(p)

Next ==
    \/ \E p \in Adds : Start(p) \/ Step(p) \/ KillAdd(p)
    \/ \E d \in Pids : Load(d) \/ KillBird(d) \/ Take(d) \/ Leave(d)
    \/ \E n \in Others : Join(n)

Spec == Init /\ [][Next]_vars

Complete == cfg \notin {Empty, Garbled}

\* Processes that can run do, and pods keep being created on the node.  Of all the
\* birds that are started while the configuration is complete, not every one is
\* overtaken by an ADD that empties it.
FairSpec ==
    /\ Spec
    /\ \A p \in Adds : WF_vars(Step(p))
    /\ \A d \in Pids : WF_vars(Load(d))
    /\ SF_vars(Complete /\ \E d \in Pids : Load(d))
    /\ WF_vars(\E p \in Adds : Start(p))

----------------------------------------------------------------------------
Bird(d) == proc[d] = "run"

\* Types; besides, an ADD that looks for a process has read a pid, and one that
\* writes a pid has started that process.
TypeOK ==
    /\ cluster \subseteq Others /\ quiet \subseteq Others
    /\ tunl \in BOOLEAN
    /\ cfg \in (SUBSET Others) \cup {Empty, Garbled}
    /\ file \in Pids \cup {NoPid, Empty}
    /\ pc \in [Adds -> {"none", "address", "setAddress", "config",
                        "truncateConfig", "writeConfig", "find", "read", "alive",
                        "delete", "start", "truncate", "write", "unlinked"}]
    /\ neighbors \in [Adds -> SUBSET Others]
    /\ pid \in [Adds -> Pids \cup {NoPid, Empty}]
    /\ proc \in [Pids -> {"none", "load", "run", "other"}]
    /\ loaded \in [Pids -> SUBSET Others] /\ since \in [Pids -> SUBSET Others]
    /\ faults \in 0..MaxFaults
    /\ \A p \in Adds : pc[p] = "alive" => pid[p] # NoPid
    /\ \A p \in Adds : pc[p] \in {"truncate", "write", "unlinked"} => pid[p] \in Pids

\* A bird knows every node that was there when the ADDs that overlapped, one with the
\* next, until it was started began, although any of them may have written the
\* configuration it reads (gen_config.go:90-96, bird.go:34-47).
KnowsEarlierNodes == \A d \in Pids : Bird(d) => since[d] \subseteq loaded[d]

\* The pid file names a living process that is not a bird.
Impostor == file \in Pids /\ proc[file] = "other"

\* Once ADDs follow one another, whatever overlapping ones and deaths left behind, a
\* bird that dies is started again; only a pid file left empty by an ADD that died,
\* or another program with the pid in it, keeps bird down for good (bird.go:20-34).
BirdComesBack ==
    <>[]OneByOne =>
        \/ []<>(\E d \in Pids : Bird(d))
        \/ <>[](file = Empty)
        \/ <>[]Impostor

\* However ADDs get into each other's way, ADDs keep succeeding, unless the pid file
\* was left empty, which no ADD repairs (bird.go:22-28).
AddsKeepSucceeding ==
    []<><<\E p \in Adds : Succeed(p)>>_vars \/ <>[](file = Empty)

=============================================================================
