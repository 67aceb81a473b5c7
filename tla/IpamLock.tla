------------------------------ MODULE IpamLock ------------------------------
(***************************************************************************)
(* The lock of the ipam package (ipam/ipam.go, lock and unlock) as the     *)
(* goroutines of one process use it.                                       *)
(*                                                                         *)
(* Get, Set and Release of the service lock the package's mutex; the method *)
(* called on what they return unlocks it, or some do not.  Methods call    *)
(* others, so that a goroutine locks again what it has locked: a flag says *)
(* whether the mutex is locked, and both functions do nothing when it says *)
(* that there is nothing to do.  The flag is read and written outside the  *)
(* mutex and does not say by whom it is locked.  A CNI command calls from  *)
(* one goroutine; the vxlan daemon has one for each record it watches.     *)
(***************************************************************************)
EXTENDS Naturals, FiniteSets

CONSTANTS
    Goroutines,     \* the goroutines of the process
    MaxNested       \* bound: accessors and methods a call uses inside

ASSUME IpamLockAssumption == MaxNested \in Nat

VARIABLES
    mutex,      \* _lock: whether it is locked
    flag,       \* _isLocking
    pc,         \* the next step of each goroutine
    depth,      \* local to it: the accessors it is inside of
    nested,     \* local to it: the accessors it has used inside the outermost
    fatal,      \* whether the runtime has ended the process
    met         \* auxiliary: whether calls of two goroutines have overlapped

lockVars == <<mutex, flag>>
vars == <<mutex, flag, pc, depth, nested, fatal, met>>

Goto(g, s) == pc' = [pc EXCEPT ![g] = s]

Calling == {g \in Goroutines : pc[g] # "idle"}

Init ==
    /\ mutex = FALSE /\ flag = FALSE
    /\ pc = [g \in Goroutines |-> "idle"]
    /\ depth = [g \in Goroutines |-> 0]
    /\ nested = [g \in Goroutines |-> 0]
    /\ fatal = FALSE
    /\ met = FALSE

\* A goroutine calls an accessor from outside.
Call(g) ==
    /\ pc[g] = "idle" /\ ~ fatal
    /\ met' = (met \/ Calling # {})
    /\ depth' = [depth EXCEPT ![g] = 1]
    /\ Goto(g, "lock")
    /\ UNCHANGED <<lockVars, nested, fatal>>

\* The method it has got uses another accessor, or calls another method directly,
\* as UnusedIP does: that one locks nothing, and unlocks at its end like the rest.
Nest(g) ==
    /\ pc[g] = "inside" /\ ~ fatal
    /\ nested[g] < MaxNested
    /\ nested' = [nested EXCEPT ![g] = @ + 1]
    /\ depth' = [depth EXCEPT ![g] = @ + 1]
    /\ \E first \in {"lock", "inside"} : Goto(g, first)
    /\ UNCHANGED <<lockVars, fatal, met>>

TestLock_Always(g) ==
    /\ pc[g] = "lock" /\ ~ fatal
    /\ Goto(g, "acquire")
    /\ UNCHANGED <<lockVars, depth, nested, fatal, met>>

\* lock(): nothing is done when the flag says that the mutex is locked ...
TestLock(g) ==
    /\ pc[g] = "lock" /\ ~ fatal
    /\ Goto(g, IF flag THEN "inside" ELSE "acquire")
    /\ UNCHANGED <<lockVars, depth, nested, fatal, met>>

\* ... and else the goroutine waits until it is unlocked, locks it ...
Acquire(g) ==
    /\ pc[g] = "acquire" /\ ~ fatal
    /\ ~ mutex
    /\ mutex' = TRUE
    /\ Goto(g, "set")
    /\ UNCHANGED <<flag, depth, nested, fatal, met>>

\* ... and says so.
SetFlag(g) ==
    /\ pc[g] = "set" /\ ~ fatal
    /\ flag' = TRUE
    /\ Goto(g, "inside")
    /\ UNCHANGED <<mutex, depth, nested, fatal, met>>

Return_Early(g) ==
    /\ depth' = [depth EXCEPT ![g] = @ - 1]
    /\ Goto(g, "idle")
    /\ nested' = [nested EXCEPT ![g] = 0]

\* The call returns to the one it was made from, or to the goroutine.
Return(g) ==
    /\ depth' = [depth EXCEPT ![g] = @ - 1]
    /\ IF depth[g] = 1
       THEN Goto(g, "idle") /\ nested' = [nested EXCEPT ![g] = 0]
       ELSE Goto(g, "inside") /\ UNCHANGED nested

\* A method that does not unlock what its accessor has locked (RecordByHost,
\* HostSubnetMap, RecordPathByHost).
ReturnLocked(g) ==
    /\ pc[g] = "inside" /\ ~ fatal
    /\ Return(g)
    /\ UNCHANGED <<lockVars, fatal, met>>

\* A method that does runs unlock() at its end.
Leave(g) ==
    /\ pc[g] = "inside" /\ ~ fatal
    /\ Goto(g, "unlock")
    /\ UNCHANGED <<lockVars, depth, nested, fatal, met>>

TestUnlock_Always(g) ==
    /\ pc[g] = "unlock" /\ ~ fatal
    /\ Goto(g, "release")
    /\ UNCHANGED <<lockVars, depth, nested, fatal, met>>

\* unlock(): nothing is done when the flag says that the mutex is not locked ...
TestUnlock(g) ==
    /\ pc[g] = "unlock" /\ ~ fatal
    /\ IF flag
       THEN Goto(g, "release") /\ UNCHANGED <<depth, nested>>
       ELSE Return(g)
    /\ UNCHANGED <<lockVars, fatal, met>>

\* ... and else it is unlocked; unlocking one that is not locked is fatal ...
Release(g) ==
    /\ pc[g] = "release" /\ ~ fatal
    /\ IF mutex
       THEN /\ mutex' = FALSE
            /\ Goto(g, "clear")
            /\ UNCHANGED fatal
       ELSE /\ fatal' = TRUE
            /\ UNCHANGED <<mutex, pc>>
    /\ UNCHANGED <<flag, depth, nested, met>>

\* ... and the flag says so.
ClearFlag(g) ==
    /\ pc[g] = "clear" /\ ~ fatal
    /\ flag' = FALSE
    /\ Return(g)
    /\ UNCHANGED <<mutex, fatal, met>>

Step(g) ==
    \/ Nest(g) \/ TestLock(g) \/ Acquire(g) \/ SetFlag(g) \/ ReturnLocked(g)
    \/ Leave(g) \/ TestUnlock(g) \/ Release(g) \/ ClearFlag(g)

Next == \E g \in Goroutines : Call(g) \/ Step(g)

Spec == Init /\ [][Next]_vars

\* A goroutine that can run does; nobody has to call.
FairSpec == Spec /\ \A g \in Goroutines : WF_vars(Step(g))

----------------------------------------------------------------------------
TypeOK ==
    /\ mutex \in BOOLEAN /\ flag \in BOOLEAN
    /\ pc \in [Goroutines -> {"idle", "lock", "acquire", "set", "inside", "unlock",
                              "release", "clear"}]
    /\ depth \in [Goroutines -> 0..(MaxNested + 1)]
    /\ nested \in [Goroutines -> 0..MaxNested]
    /\ fatal \in BOOLEAN /\ met \in BOOLEAN
    /\ \A g \in Goroutines : pc[g] = "idle" <=> depth[g] = 0

\* The mutex is locked, and nobody is left who would unlock it or set the flag:
\* whoever calls from now on waits for ever.
Stuck ==
    /\ mutex /\ ~ flag
    /\ \A g \in Goroutines : pc[g] \notin {"set", "release"}

\* However calls are nested and whichever of them unlock, calls that never overlap
\* neither unlock the mutex twice nor leave it locked for good (ipam.go:85-97).
AloneSound == fatal \/ Stuck => met

\* ... so that each of them returns, whatever an earlier one left locked.
AloneReturns ==
    \A g \in Goroutines : pc[g] # "idle" ~> (pc[g] = "idle" \/ met)

=============================================================================
