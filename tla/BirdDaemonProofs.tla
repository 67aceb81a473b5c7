-------------------------- MODULE BirdDaemonProofs --------------------------
(***************************************************************************)
(* Proofs about BirdDaemon, for any number of ADDs, processes and nodes,   *)
(* and without a bound on the faults that happen: its type invariant, and  *)
(* that a bird knows every node that was there when the overlapping ADDs   *)
(* that led to it began.                                                   *)
(***************************************************************************)
EXTENDS BirdDaemon, TLAPS

\* What the configuration holds, when it is a whole one, is at least ns.
Covers(ns) == cfg \in {Empty, Garbled} \/ ns \subseteq cfg

\* An ADD that has been to the configuration, and still runs.
Configured(p) ==
    pc[p] \in {"find", "read", "alive", "delete", "start", "truncate", "write",
               "unlinked"}

\* The strengthening.  The nodes every running ADD has seen are on the way to the
\* configuration from the moment one of them reads the list of nodes until a bird
\* has read the file: in the neighbours of each that is about to write, in the file
\* for each that has written, and, for a bird about to load, in the file it will find.
Known ==
    /\ quiet \subseteq cluster
    /\ \A p \in Adds :
          pc[p] \in {"truncateConfig", "writeConfig"} => quiet \subseteq neighbors[p]
    /\ \A p \in Adds : Configured(p) => Covers(quiet)
    /\ \A d \in Pids : since[d] \subseteq quiet
    /\ \A d \in Pids : proc[d] = "load" => Covers(since[d])
    /\ KnowsEarlierNodes

IInv == TypeOK /\ Known

-----------------------------------------------------------------------------
LEMMA TypeInit == Init => TypeOK
  <1> SUFFICES ASSUME Init PROVE TypeOK
    OBVIOUS
  <1>1. faults \in 0..MaxFaults
    BY BirdDaemonAssumption DEF Init
  <1>2. \A p \in Adds : pc[p] = "none"
    BY DEF Init
  <1>3. /\ cfg \in (SUBSET Others) \cup {Empty, Garbled}
        /\ file \in Pids \cup {NoPid, Empty}
    BY DEF Init
  <1>4. /\ pc \in [Adds -> {"none", "address", "setAddress", "config",
                            "truncateConfig", "writeConfig", "find", "read", "alive",
                            "delete", "start", "truncate", "write", "unlinked"}]
        /\ neighbors \in [Adds -> SUBSET Others]
        /\ pid \in [Adds -> Pids \cup {NoPid, Empty}]
    BY DEF Init
  <1>5. /\ proc \in [Pids -> {"none", "load", "run", "other"}]
        /\ loaded \in [Pids -> SUBSET Others] /\ since \in [Pids -> SUBSET Others]
    BY DEF Init
  <1>6. cluster \subseteq Others /\ quiet \subseteq Others /\ tunl \in BOOLEAN
    BY DEF Init
  <1> QED
    BY <1>1, <1>2, <1>3, <1>4, <1>5, <1>6 DEF TypeOK

LEMMA TypeStep == TypeOK /\ [Next]_vars => TypeOK'
  <1> SUFFICES ASSUME TypeOK, [Next]_vars PROVE TypeOK'
    OBVIOUS
  <1> USE BirdDaemonAssumption DEF TypeOK, Goto, addVars, birdVars
  <1>u. CASE UNCHANGED vars
    BY <1>u DEF vars
  <1>n. CASE Next
    <2>1. CASE \E p \in Adds : Start(p) \/ Step(p) \/ KillAdd(p)
      <3> PICK p \in Adds : Start(p) \/ Step(p) \/ KillAdd(p)
        BY <2>1
      <3>1. CASE Start(p)
        BY <3>1 DEF Start, Ended
      <3>2. CASE FindAddress(p)
        BY <3>2 DEF FindAddress
      <3>3. CASE SetAddress(p)
        BY <3>3 DEF SetAddress, End
      <3>4. CASE GetConfig(p)
        BY <3>4 DEF GetConfig, AllOtherHostIP
      <3>5. CASE TruncateConfig(p)
        BY <3>5 DEF TruncateConfig
      <3>6. CASE WriteConfig(p)
        BY <3>6 DEF WriteConfig
      <3>7. CASE Find(p)
        BY <3>7 DEF Find
      <3>8. CASE Read(p)
        BY <3>8 DEF Read, End
      <3>9. CASE FoundAlive(p)
        BY <3>9 DEF FoundAlive, End, Running
      <3>10. CASE FoundEmpty(p)
        BY <3>10 DEF FoundEmpty, End
      <3>11. CASE FoundDead(p)
        BY <3>11 DEF FoundDead, Running
      <3>12. CASE Delete(p)
        BY <3>12 DEF Delete
      <3>13. CASE StartBird(p)
        <4> PICK d \in Free : /\ proc' = [proc EXCEPT ![d] = "load"]
                              /\ since' = [since EXCEPT ![d] = quiet]
                              /\ pid' = [pid EXCEPT ![p] = d]
          BY <3>13 DEF StartBird
        <4>1. d \in Pids /\ d # NoPid
          BY DEF Free
        <4> QED
          BY <3>13, <4>1 DEF StartBird
      <3>14. CASE Truncate(p)
        BY <3>14 DEF Truncate
      <3>15. CASE Write(p)
        BY <3>15 DEF Write, End
      <3>16. CASE WriteUnlinked(p)
        BY <3>16 DEF WriteUnlinked, End
      <3>17. CASE KillAdd(p)
        BY <3>17 DEF KillAdd, End
      <3> QED
        BY <3>1, <3>2, <3>3, <3>4, <3>5, <3>6, <3>7, <3>8, <3>9, <3>10, <3>11, <3>12, <3>13, <3>14, <3>15, <3>16, <3>17
           DEF Step
    <2>2. CASE \E d \in Pids : Load(d) \/ KillBird(d) \/ Take(d) \/ Leave(d)
      <3> PICK d \in Pids : Load(d) \/ KillBird(d) \/ Take(d) \/ Leave(d)
        BY <2>2
      <3>1. CASE Load(d)
        BY <3>1 DEF Load, Gone
      <3>2. CASE KillBird(d)
        BY <3>2 DEF KillBird, Gone
      <3>3. CASE Take(d)
        BY <3>3 DEF Take, Free
      <3>4. CASE Leave(d)
        BY <3>4 DEF Leave, Gone
      <3> QED
        BY <3>1, <3>2, <3>3, <3>4
    <2>3. CASE \E n \in Others : Join(n)
      BY <2>3 DEF Join
    <2> QED
      BY <1>n, <2>1, <2>2, <2>3 DEF Next
  <1> QED
    BY <1>u, <1>n

\* Every value is of its type; besides, an ADD that looks for a process has read a
\* pid, and one that writes a pid has started that process (bird.go:22-48).
THEOREM TypeCorrect == Spec => []TypeOK
  BY TypeInit, TypeStep, PTL DEF Spec

-----------------------------------------------------------------------------
LEMMA KnownInit == Init => Known
  BY DEF Init, Known, KnowsEarlierNodes, Configured, Bird

LEMMA KnownStep == IInv /\ [Next]_vars => Known'
  <1> SUFFICES ASSUME IInv, [Next]_vars PROVE Known'
    OBVIOUS
  <1> USE DEF IInv, TypeOK, Known, KnowsEarlierNodes, Configured, Covers, Bird, Goto,
              addVars, birdVars
  <1>u. CASE UNCHANGED vars
    BY <1>u DEF vars
  <1>n. CASE Next
    <2>1. CASE \E p \in Adds : Start(p) \/ Step(p) \/ KillAdd(p)
      <3> PICK p \in Adds : Start(p) \/ Step(p) \/ KillAdd(p)
        BY <2>1
      <3>1. CASE Start(p)
        BY <3>1 DEF Start, Ended
      <3>2. CASE FindAddress(p)
        BY <3>2 DEF FindAddress
      <3>3. CASE SetAddress(p)
        BY <3>3 DEF SetAddress, End
      <3>4. CASE GetConfig(p)
        BY <3>4 DEF GetConfig, AllOtherHostIP
      <3>5. CASE TruncateConfig(p)
        BY <3>5 DEF TruncateConfig
      <3>6. CASE WriteConfig(p)
        BY <3>6 DEF WriteConfig
      <3>7. CASE Find(p)
        BY <3>7 DEF Find
      <3>8. CASE Read(p)
        BY <3>8 DEF Read, End
      <3>9. CASE FoundAlive(p)
        BY <3>9 DEF FoundAlive, End, Running
      <3>10. CASE FoundEmpty(p)
        BY <3>10 DEF FoundEmpty, End
      <3>11. CASE FoundDead(p)
        BY <3>11 DEF FoundDead, Running
      <3>12. CASE Delete(p)
        BY <3>12 DEF Delete
      <3>13. CASE StartBird(p)
        BY <3>13 DEF StartBird, Free
      <3>14. CASE Truncate(p)
        BY <3>14 DEF Truncate
      <3>15. CASE Write(p)
        BY <3>15 DEF Write, End
      <3>16. CASE WriteUnlinked(p)
        BY <3>16 DEF WriteUnlinked, End
      <3>17. CASE KillAdd(p)
        BY <3>17 DEF KillAdd, End
      <3> QED
        BY <3>1, <3>2, <3>3, <3>4, <3>5, <3>6, <3>7, <3>8, <3>9, <3>10, <3>11, <3>12, <3>13, <3>14, <3>15, <3>16, <3>17
           DEF Step
    <2>2. CASE \E d \in Pids : Load(d) \/ KillBird(d) \/ Take(d) \/ Leave(d)
      <3> PICK d \in Pids : Load(d) \/ KillBird(d) \/ Take(d) \/ Leave(d)
        BY <2>2
      <3>1. CASE Load(d)
        BY <3>1 DEF Load, Gone
      <3>2. CASE KillBird(d)
        BY <3>2 DEF KillBird, Gone
      <3>3. CASE Take(d)
        BY <3>3 DEF Take, Free
      <3>4. CASE Leave(d)
        BY <3>4 DEF Leave, Gone
      <3> QED
        BY <3>1, <3>2, <3>3, <3>4
    <2>3. CASE \E n \in Others : Join(n)
      BY <2>3 DEF Join
    <2> QED
      BY <1>n, <2>1, <2>2, <2>3 DEF Next
  <1> QED
    BY <1>u, <1>n

\* A bird knows every node that was there when the ADDs that overlapped, one with the
\* next, until it was started began, whichever of them wrote the configuration it has
\* read, and however many of them died (gen_config.go:96-102, bird.go:36-46).
THEOREM BirdKnowsEarlierNodes == Spec => []KnowsEarlierNodes
  <1>1. Init => IInv
    BY TypeInit, KnownInit DEF IInv
  <1>2. IInv /\ [Next]_vars => IInv'
    BY TypeStep, KnownStep DEF IInv
  <1>3. IInv => KnowsEarlierNodes
    BY DEF IInv, Known
  <1> QED
    BY <1>1, <1>2, <1>3, PTL DEF Spec

-----------------------------------------------------------------------------
(***************************************************************************)
(* An empty pid file.                                                      *)
(***************************************************************************)

\* The pid file is empty, and no ADD is left that had found a pid in it or no file.
LeftEmpty ==
    /\ file = Empty
    /\ \A p \in Adds :
          /\ pc[p] \notin {"delete", "start", "truncate", "write", "unlinked"}
          /\ pc[p] = "alive" => pid[p] = Empty

EmptyForGood ==
    LeftEmpty => /\ LeftEmpty'
                 /\ \A p \in Adds : ~ Succeed(p) /\ ~ StartBird(p)

LEMMA LeftEmptyStep == TypeOK /\ [Next]_vars => [EmptyForGood]_vars
  <1> SUFFICES ASSUME TypeOK, Next, LeftEmpty
               PROVE  LeftEmpty' /\ \A p \in Adds : ~ Succeed(p) /\ ~ StartBird(p)
    BY DEF EmptyForGood
  <1>e. Empty \notin Pids /\ NoPid \notin Pids /\ NoPid # Empty
    BY BirdDaemonAssumption
  <1>1. \A p \in Adds : ~ Succeed(p) /\ ~ StartBird(p)
    BY <1>e DEF LeftEmpty, Succeed, FoundAlive, Running, Write, WriteUnlinked, StartBird
  <1> USE <1>e DEF LeftEmpty, TypeOK, Goto, End, addVars, birdVars
  <1>2. ASSUME NEW p \in Adds, Start(p) \/ Step(p) \/ KillAdd(p)
        PROVE  LeftEmpty'
    <2>1. CASE Read(p)
      BY <2>1 DEF Read
    <2>2. CASE \/ FindAddress(p) \/ SetAddress(p) \/ GetConfig(p) \/ TruncateConfig(p)
               \/ WriteConfig(p) \/ Find(p)
      BY <2>2 DEF FindAddress, SetAddress, GetConfig, TruncateConfig, WriteConfig, Find
    <2>3. CASE FoundAlive(p) \/ FoundEmpty(p) \/ FoundDead(p)
      BY <2>3 DEF FoundAlive, FoundEmpty, FoundDead
    <2>4. CASE Delete(p) \/ StartBird(p) \/ Truncate(p) \/ Write(p) \/ WriteUnlinked(p)
      BY <2>4 DEF Delete, StartBird, Truncate, Write, WriteUnlinked
    <2>5. CASE Start(p) \/ KillAdd(p)
      BY <2>5 DEF Start, KillAdd
    <2> QED
      BY <1>2, <2>1, <2>2, <2>3, <2>4, <2>5 DEF Step
  <1>3. CASE \/ \E d \in Pids : Load(d) \/ KillBird(d) \/ Take(d) \/ Leave(d)
             \/ \E n \in Others : Join(n)
    <2>1. UNCHANGED <<file, pc, pid>>
      <3>1. ASSUME NEW d \in Pids, Load(d) \/ KillBird(d) \/ Take(d) \/ Leave(d)
            PROVE  UNCHANGED <<file, addVars>>
        BY <3>1 DEF Load, KillBird, Take, Leave
      <3>2. ASSUME NEW n \in Others, Join(n) PROVE UNCHANGED <<file, addVars>>
        BY <3>2 DEF Join
      <3> QED
        BY <1>3, <3>1, <3>2
    <2> QED
      BY <1>1, <2>1
  <1> QED
    BY <1>1, <1>2, <1>3 DEF Next

\* A pid file that an ADD has left empty stays so for good: every later ADD of the
\* node fails at it, none starts bird again, and none repairs the file
\* (bird.go:22-28).
THEOREM EmptyStaysEmpty == Spec => [][EmptyForGood]_vars
  BY TypeInit, TypeStep, LeftEmptyStep, PTL DEF Spec

-----------------------------------------------------------------------------
(***************************************************************************)
(* A bird that the pid file names.                                         *)
(***************************************************************************)

\* The pid file names a bird that runs, and no ADD is left that had found another pid
\* in it, or none.
Named(d) ==
    /\ file = d /\ Bird(d)
    /\ \A p \in Adds :
          /\ pc[p] \notin {"delete", "start", "truncate", "write"}
          /\ pc[p] = "alive" => pid[p] = d

StaysNamed ==
    \A d \in Pids :
        Named(d) /\ Bird(d)' => Named(d)' /\ \A p \in Adds : ~ StartBird(p)

LEMMA NamedStep == TypeOK /\ [Next]_vars => [StaysNamed]_vars
  <1> SUFFICES ASSUME TypeOK, Next, NEW d \in Pids, Named(d), Bird(d)'
               PROVE  Named(d)' /\ \A p \in Adds : ~ StartBird(p)
    BY DEF StaysNamed
  <1>e. Empty \notin Pids /\ NoPid \notin Pids
    BY BirdDaemonAssumption
  <1>1. \A p \in Adds : ~ StartBird(p)
    BY DEF Named, StartBird
  <1> USE <1>e DEF Named, TypeOK, Goto, End, addVars, birdVars
  <1>2. ASSUME NEW p \in Adds, Start(p) \/ Step(p) \/ KillAdd(p)
        PROVE  Named(d)'
    <2>1. CASE Read(p)
      <3>1. file' = file /\ pid' = [pid EXCEPT ![p] = d] /\ Goto(p, "alive")
        BY <2>1 DEF Read
      <3> QED
        BY <3>1
    <2>2. CASE \/ FindAddress(p) \/ SetAddress(p) \/ GetConfig(p) \/ TruncateConfig(p)
               \/ WriteConfig(p) \/ Find(p)
      BY <2>2 DEF FindAddress, SetAddress, GetConfig, TruncateConfig, WriteConfig, Find
    <2>3. CASE FoundAlive(p) \/ FoundEmpty(p)
      BY <2>3 DEF FoundAlive, FoundEmpty
    <2>4. CASE FoundDead(p) \/ Delete(p) \/ Truncate(p) \/ Write(p) \/ WriteUnlinked(p)
      BY <2>4 DEF FoundDead, Delete, Truncate, Write, WriteUnlinked, Running, Bird
    <2>5. CASE Start(p) \/ KillAdd(p)
      BY <2>5 DEF Start, KillAdd
    <2> QED
      BY <1>1, <1>2, <2>1, <2>2, <2>3, <2>4, <2>5 DEF Step
  <1>3. CASE \/ \E e \in Pids : Load(e) \/ KillBird(e) \/ Take(e) \/ Leave(e)
             \/ \E n \in Others : Join(n)
    <2>1. UNCHANGED <<file, pc, pid>>
      <3>1. ASSUME NEW e \in Pids, Load(e) \/ KillBird(e) \/ Take(e) \/ Leave(e)
            PROVE  UNCHANGED <<file, addVars>>
        BY <3>1 DEF Load, KillBird, Take, Leave
      <3>2. ASSUME NEW n \in Others, Join(n) PROVE UNCHANGED <<file, addVars>>
        BY <3>2 DEF Join
      <3> QED
        BY <1>3, <3>1, <3>2
    <2> QED
      BY <1>1, <2>1
  <1> QED
    BY <1>1, <1>2, <1>3 DEF Next

\* A bird that the pid file names stays named and alone for as long as it lives, once
\* the ADDs that had read the file before are done: no ADD starts another one or
\* touches the file, however many run at the same time (bird.go:20-34).
THEOREM NamedStaysNamed == Spec => [][StaysNamed]_vars
  BY TypeInit, TypeStep, NamedStep, PTL DEF Spec

=============================================================================
