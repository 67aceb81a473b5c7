------------------------- MODULE WatchDaemonProofs -------------------------
(***************************************************************************)
(* Theorems about WatchDaemon, for any processes, any number of ADDs at a  *)
(* time and any faults: types, and what the properties of its run that are *)
(* about the end of a race come to in single steps.                        *)
(***************************************************************************)
EXTENDS WatchDaemon, TLAPS

LEMMA StepCases ==
    ASSUME NEW p \in Pids, Start(p) \/ Step(p) \/ Fault(p)
    PROVE  \/ Start(p) \/ Check(p) \/ Compare(p) \/ Delete(p) \/ Truncate(p) \/ Write(p)
           \/ WriteUnlinked(p) \/ Spawn(p) \/ Listen(p) \/ RebornFails(p)
           \/ SpawnFails(p) \/ Kill(p)
  BY DEF Step, Fault

LEMMA TypeInit == Init => TypeOK
  BY WatchDaemonAssumption DEF Init, TypeOK, Watchers

\* A process that does not have the port may end.
LEMMA ReturnTyped ==
    ASSUME TypeOK, NEW p \in Pids, pc[p] # "serve", Return(p), port' = port,
           file' \in Pids \cup {NoPid, Empty}, faults' \in 0..MaxFaults, faults <= faults'
    PROVE  TypeOK'
  <1>1. \A q \in Pids : /\ pc'[q] = IF q = p THEN "none" ELSE pc[q]
                        /\ role'[q] = IF q = p THEN "add" ELSE role[q]
    BY DEF Return, Goto, TypeOK
  <1>2. /\ pc' \in [Pids -> {"none", "check", "compare", "delete", "truncate", "write",
                             "unlinked", "spawn", "watch", "serve"}]
        /\ role' \in [Pids -> {"add", "child", "alone"}]
        /\ pid' \in [Pids -> Pids \cup {NoPid}]
    BY DEF Return, Goto, TypeOK
  <1>3. \A q \in Pids : pc'[q] = "serve" <=> port' = q
    BY <1>1 DEF TypeOK
  <1>4. \A q \in Watchers' : role'[q] # "add"
    BY <1>1 DEF TypeOK, Watchers
  <1>5. \A q \in Pids : role'[q] = "alone" => faults' > 0 /\ q \in Watchers'
    BY <1>1 DEF TypeOK, Watchers
  <1> QED
    BY <1>2, <1>3, <1>4, <1>5 DEF TypeOK

LEMMA TypeStep == TypeOK /\ [Next]_vars => TypeOK'
  <1> SUFFICES ASSUME TypeOK, [Next]_vars PROVE TypeOK'
    OBVIOUS
  <1> USE WatchDaemonAssumption DEF TypeOK, Watchers, Goto, Return
  <1>u. CASE UNCHANGED vars
    BY <1>u DEF vars
  <1>n. CASE Next
    <2> PICK p \in Pids : Start(p) \/ Step(p) \/ Fault(p)
      BY <1>n DEF Next
    <2>1. CASE Start(p)
      BY <2>1 DEF Start
    <2>2. CASE Check(p)
      <3>1. CASE port = NoPid
        BY <2>2, <3>1 DEF Check
      <3>2. CASE port # NoPid
        BY <2>2, <3>2 DEF Check
      <3> QED
        BY <3>1, <3>2
    <2>3. CASE Compare(p)
      <3>1. CASE file = pid[p]
        BY <2>3, <3>1, ReturnTyped DEF Compare
      <3>2. CASE file # pid[p]
        BY <2>3, <3>2 DEF Compare
      <3> QED
        BY <3>1, <3>2
    <2>4. CASE Delete(p)
      BY <2>4 DEF Delete
    <2>5. CASE Truncate(p)
      BY <2>5 DEF Truncate
    <2>6. CASE Write(p)
      BY <2>6, ReturnTyped DEF Write
    <2>7. CASE WriteUnlinked(p)
      BY <2>7, ReturnTyped DEF WriteUnlinked
    <2>8. CASE Spawn(p)
      <3> PICK d \in Pids :
             /\ pc[d] = "none" /\ pc[p] = "spawn"
             /\ pc' = [pc EXCEPT ![p] = "truncate", ![d] = "check"]
             /\ role' = [role EXCEPT ![d] = "child"]
             /\ pid' = [pid EXCEPT ![p] = d]
             /\ UNCHANGED <<port, file, faults>>
        BY <2>8 DEF Spawn
      <3> QED
        OBVIOUS
    <2>9. CASE Listen(p)
      <3>1. CASE port = NoPid
        BY <2>9, <3>1 DEF Listen
      <3>2. CASE port # NoPid
        BY <2>9, <3>2, ReturnTyped DEF Listen
      <3> QED
        BY <3>1, <3>2
    <2>10. CASE RebornFails(p)
      BY <2>10 DEF RebornFails
    <2>11. CASE SpawnFails(p)
      BY <2>11, ReturnTyped DEF SpawnFails
    <2>12. CASE Kill(p)
      BY <2>12 DEF Kill
    <2> QED
      BY <2>1, <2>2, <2>3, <2>4, <2>5, <2>6, <2>7, <2>8, <2>9, <2>10, <2>11, <2>12,
         StepCases
  <1> QED
    BY <1>u, <1>n

\* Every variable keeps its type; only a child of StartDeamon ever watches, or an ADD
\* after a Reborn that failed (daemon.go:16-31), and whoever serves has the health
\* port, so that no two do.
THEOREM TypeCorrect == Spec => []TypeOK
  BY TypeInit, TypeStep, PTL DEF Spec

-----------------------------------------------------------------------------
(***************************************************************************)
(* The daemon that has the port keeps it and keeps others out.             *)
(***************************************************************************)

\* Only its death takes the port from a daemon, and until then no process starts to
\* watch, whichever ADDs and children were on their way when it bound the port, but an
\* ADD that had found it free and fails to start a child.
KeepsOthersOut ==
    port # NoPid =>
        /\ port' = port \/ (port' = NoPid /\ Kill(port))
        /\ port' = port => Watchers' \subseteq Watchers \cup {p \in Pids : RebornFails(p)}

LEMMA OthersKeptOut == TypeOK /\ [Next]_vars => [KeepsOthersOut]_vars
  <1> SUFFICES ASSUME TypeOK, Next, port # NoPid
               PROVE  /\ port' = port \/ (port' = NoPid /\ Kill(port))
                      /\ port' = port =>
                             Watchers' \subseteq Watchers \cup {q \in Pids : RebornFails(q)}
    BY DEF KeepsOthersOut
  <1> PICK p \in Pids : Start(p) \/ Step(p) \/ Fault(p)
    BY DEF Next
  <1>1. port' = port \/ (port' = NoPid /\ Kill(port))
    BY StepCases DEF Start, Check, Compare, Delete, Truncate, Write, WriteUnlinked, Spawn,
                     Listen, RebornFails, SpawnFails, Kill
  <1>2. \A q \in Pids : pc'[q] \in {"watch", "serve"} =>
                           pc[q] \in {"watch", "serve"} \/ (q = p /\ RebornFails(p))
    BY StepCases DEF TypeOK, Goto, Return, Start, Check, Compare, Delete, Truncate, Write,
                     WriteUnlinked, Spawn, Listen, RebornFails, SpawnFails, Kill
  <1> QED
    BY <1>1, <1>2 DEF Watchers

\* However many daemons were started at the same time, once one has bound the port
\* their number only falls, but for ADDs that could not start theirs: the others find
\* the port taken when they come to it, and end (mapprocessor.go:23, mapwatcher.go:58).
THEOREM OneIsLeft == Spec => [][KeepsOthersOut]_vars
  BY TypeInit, TypeStep, OthersKeptOut, PTL DEF Spec

-----------------------------------------------------------------------------
(***************************************************************************)
(* What the races have left in the pid file is repaired for good.          *)
(***************************************************************************)

\* Whoever is about to write the pid file would write the daemon's pid.
WritersAgree ==
    /\ port # NoPid
    /\ \A p \in Pids :
          /\ pc[p] # "spawn"
          /\ pc[p] \in {"compare", "delete", "truncate", "write"} => pid[p] = port

Settled == WritersAgree /\ file \in {port, Empty, NoPid}

\* While the daemon lives the writers go on to agree, and the file, once it names
\* nobody else, names nobody else again.
StaysSettled ==
    port' = port => /\ WritersAgree => WritersAgree'
                    /\ Settled => Settled'

LEMMA SettledStep == TypeOK /\ [Next]_vars => [StaysSettled]_vars
  <1> SUFFICES ASSUME TypeOK, Next, port' = port, WritersAgree
               PROVE  /\ WritersAgree'
                      /\ file \in {port, Empty, NoPid} => file' \in {port, Empty, NoPid}
    BY DEF StaysSettled, Settled
  <1> PICK p \in Pids : Start(p) \/ Step(p) \/ Fault(p)
    BY DEF Next
  <1> USE DEF WritersAgree, TypeOK, Goto, Return
  <1>1. CASE Spawn(p) \/ RebornFails(p) \/ SpawnFails(p)
    BY <1>1 DEF Spawn, RebornFails, SpawnFails
  <1>2. CASE Check(p)
    BY <1>2 DEF Check
  <1>3. CASE Write(p)
    <2>1. pid[p] = port /\ pc' = [pc EXCEPT ![p] = "none"]
                       /\ pid' = [pid EXCEPT ![p] = NoPid]
      BY <1>3 DEF Write
    <2>2. file \in {port, Empty, NoPid} => file' = port
      BY <1>3, <2>1, WatchDaemonAssumption DEF Write
    <2> QED
      BY <2>1, <2>2
  <1>4. CASE \/ Start(p) \/ Compare(p) \/ Delete(p) \/ Truncate(p) \/ WriteUnlinked(p)
             \/ Listen(p) \/ Kill(p)
    BY <1>4 DEF Start, Compare, Delete, Truncate, WriteUnlinked, Listen, Kill
  <1> QED
    BY <1>1, <1>2, <1>3, <1>4, StepCases

\* The repair of the pid file lasts as long as the daemon: when those who were about
\* to write another pid are done, no later ADD writes one, although each of them
\* checks the port and the file in steps of its own (vxlan.go:42-51).
THEOREM RepairLasts == Spec => [][StaysSettled]_vars
  BY TypeInit, TypeStep, SettledStep, PTL DEF Spec

-----------------------------------------------------------------------------
(***************************************************************************)
(* A process comes to its end.                                             *)
(***************************************************************************)

\* The longest way that a process has before it, up to the daemon that serves.
Rank(p) ==
    CASE pc[p] = "check"                        -> 6
      [] pc[p] = "compare"                      -> 5
      [] pc[p] \in {"delete", "spawn"}          -> 4
      [] pc[p] = "truncate"                     -> 3
      [] pc[p] \in {"write", "unlinked", "watch"} -> 2
      [] pc[p] = "serve"                        -> 1
      [] OTHER                                  -> 0

Advances == \A p \in Pids : Step(p) => Rank(p)' < Rank(p)

\* Every step of an ADD, and of the child it starts, brings it nearer to its end,
\* or to the daemon that serves: neither goes round in a circle (daemon.go:16-31).
THEOREM EveryStepAdvances == Spec => [][Advances]_vars
  <1>1. TypeOK /\ [Next]_vars => [Advances]_vars
    <2> SUFFICES ASSUME TypeOK, NEW p \in Pids, Step(p) PROVE Rank(p)' < Rank(p)
      BY DEF Advances
    <2>1. CASE Spawn(p)
      <3>1. pc[p] = "spawn" /\ pc'[p] = "truncate"
        BY <2>1 DEF Spawn, TypeOK
      <3> QED
        BY <3>1 DEF Rank
    <2>2. CASE ~ Spawn(p)
      BY <2>2 DEF Step, Check, Compare, Delete, Truncate, Write, WriteUnlinked, Listen,
                  Goto, Return, Rank, TypeOK
    <2> QED
      BY <2>1, <2>2
  <1> QED
    BY <1>1, TypeInit, TypeStep, PTL DEF Spec

=============================================================================
