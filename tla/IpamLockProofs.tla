--------------------------- MODULE IpamLockProofs ---------------------------
(***************************************************************************)
(* Proofs about IpamLock, for any number of goroutines: its type invariant, *)
(* and that calls that never overlap neither unlock the mutex twice nor    *)
(* leave it locked for good.  The invariant says where the flag may differ *)
(* from the mutex while only one goroutine is inside a call: only between  *)
(* what is done to the mutex and the assignment that says so.              *)
(***************************************************************************)
EXTENDS IpamLock, TLAPS

\* A call is never deeper than the accessors it has used.
TypeInv ==
    /\ TypeOK
    /\ \A g \in Goroutines : depth[g] <= nested[g] + 1

\* Only one goroutine is inside a call, and the flag says what the mutex is.
Alone ==
    /\ \A g, h \in Goroutines : pc[g] # "idle" /\ pc[h] # "idle" => g = h
    /\ ~ fatal
    /\ mutex # flag => \E g \in Goroutines : pc[g] \in {"set", "clear"}
    /\ \A g \in Goroutines :
          /\ pc[g] = "acquire" => ~ mutex /\ ~ flag
          /\ pc[g] = "set" => mutex /\ ~ flag
          /\ pc[g] = "release" => mutex /\ flag
          /\ pc[g] = "clear" => ~ mutex /\ flag

IInv ==
    /\ TypeInv
    /\ met \/ Alone

LEMMA StepCases ==
    ASSUME NEW g \in Goroutines, Call(g) \/ Step(g)
    PROVE  \/ Call(g) \/ Nest(g) \/ TestLock(g) \/ Acquire(g) \/ SetFlag(g)
           \/ ReturnLocked(g) \/ Leave(g) \/ TestUnlock(g) \/ Release(g)
           \/ ClearFlag(g)
  BY DEF Step

-----------------------------------------------------------------------------
LEMMA TypeInit == Init => TypeInv
  <1> SUFFICES ASSUME Init PROVE TypeInv
    OBVIOUS
  <1>1. 0 \in 0..MaxNested /\ 0 \in 0..(MaxNested + 1) /\ 0 <= 0 + 1
    BY IpamLockAssumption
  <1>2. \A g \in Goroutines : pc[g] = "idle" /\ depth[g] = 0 /\ nested[g] = 0
    BY DEF Init
  <1>3. depth \in [Goroutines -> 0..(MaxNested + 1)] /\ nested \in [Goroutines -> 0..MaxNested]
    BY <1>1 DEF Init
  <1> QED
    BY <1>1, <1>2, <1>3 DEF Init, TypeInv, TypeOK

LEMMA ReturnTyped ==
    ASSUME TypeInv, NEW g \in Goroutines, pc[g] # "idle", Return(g)
    PROVE  /\ pc' \in [Goroutines -> {"idle", "lock", "acquire", "set", "inside",
                                      "unlock", "release", "clear"}]
           /\ depth' \in [Goroutines -> 0..(MaxNested + 1)]
           /\ nested' \in [Goroutines -> 0..MaxNested]
           /\ \A h \in Goroutines : pc'[h] = "idle" <=> depth'[h] = 0
           /\ \A h \in Goroutines : depth'[h] <= nested'[h] + 1
  BY IpamLockAssumption DEF TypeInv, TypeOK, Return, Goto

LEMMA TypeStep == TypeInv /\ [Next]_vars => TypeInv'
  <1> SUFFICES ASSUME TypeInv, [Next]_vars PROVE TypeInv'
    OBVIOUS
  <1>u. CASE UNCHANGED vars
    BY <1>u DEF vars, lockVars, TypeInv, TypeOK
  <1>n. CASE Next
    <2> PICK g \in Goroutines : Call(g) \/ Step(g)
      BY <1>n DEF Next
    <2> USE IpamLockAssumption
    <2>1. CASE Call(g)
      BY <2>1 DEF Call, lockVars, TypeInv, TypeOK, Goto
    <2>2. CASE Nest(g)
      BY <2>2 DEF Nest, lockVars, TypeInv, TypeOK, Goto
    <2>3. CASE TestLock(g)
      BY <2>3 DEF TestLock, lockVars, TypeInv, TypeOK, Goto
    <2>4. CASE Acquire(g)
      BY <2>4 DEF Acquire, lockVars, TypeInv, TypeOK, Goto
    <2>5. CASE SetFlag(g)
      BY <2>5 DEF SetFlag, lockVars, TypeInv, TypeOK, Goto
    <2>6. CASE ReturnLocked(g)
      BY <2>6, ReturnTyped DEF ReturnLocked, lockVars, TypeInv, TypeOK, Goto
    <2>7. CASE Leave(g)
      BY <2>7 DEF Leave, lockVars, TypeInv, TypeOK, Goto
    <2>8. CASE TestUnlock(g)
      BY <2>8, ReturnTyped DEF TestUnlock, lockVars, TypeInv, TypeOK, Goto
    <2>9. CASE Release(g)
      BY <2>9 DEF Release, lockVars, TypeInv, TypeOK, Goto
    <2>10. CASE ClearFlag(g)
      BY <2>10, ReturnTyped DEF ClearFlag, lockVars, TypeInv, TypeOK, Goto
    <2> QED
      BY StepCases, <2>1, <2>2, <2>3, <2>4, <2>5, <2>6, <2>7, <2>8, <2>9, <2>10
  <1> QED
    BY <1>u, <1>n DEF TypeInv

\* Every value is of its type: a call is never deeper than the accessors it has
\* used, and a goroutine is inside a call exactly when it has not returned from it
\* (ipam.go:898-912).
THEOREM TypeCorrect == Spec => []TypeOK
  <1>1. Spec => []TypeInv
    BY TypeInit, TypeStep, PTL DEF Spec
  <1>2. TypeInv => TypeOK
    BY DEF TypeInv
  <1> QED
    BY <1>1, <1>2, PTL

-----------------------------------------------------------------------------
LEMMA AloneInit == Init => Alone
  BY DEF Init, Alone

\* The goroutine that has called is the only one, and the lock is at rest.
LEMMA AloneInside ==
    ASSUME Alone, NEW g \in Goroutines, pc[g] # "idle"
    PROVE  /\ \A h \in Goroutines \ {g} : pc[h] = "idle"
           /\ pc[g] \notin {"set", "clear"} => mutex = flag
  BY DEF Alone

LEMMA AloneStep == TypeInv /\ (met \/ Alone) /\ [Next]_vars => (met \/ Alone)'
  <1> SUFFICES ASSUME TypeInv, Alone, ~ met, [Next]_vars, ~ met' PROVE Alone'
    <2>1. met /\ [Next]_vars => met'
      BY DEF Next, vars, lockVars, Call, Step, Nest, TestLock, Acquire, SetFlag,
             ReturnLocked, Leave, TestUnlock, Release, ClearFlag
    <2> QED
      BY <2>1
  <1>u. CASE UNCHANGED vars
    BY <1>u DEF vars, lockVars, Alone
  <1>n. CASE Next
    <2> PICK g \in Goroutines : Call(g) \/ Step(g)
      BY <1>n DEF Next
    <2>1. CASE Call(g)
      <3>1. \A h \in Goroutines : pc[h] = "idle"
        BY <2>1 DEF Call, Calling
      <3> QED
        BY <2>1, <3>1 DEF Call, lockVars, Alone, Goto, TypeInv, TypeOK
    <2>s. ASSUME Step(g) PROVE Alone'
      <3>1. /\ pc[g] # "idle"
            /\ \A h \in Goroutines \ {g} : pc[h] = "idle"
            /\ pc[g] \notin {"set", "clear"} => mutex = flag
        BY <2>s, AloneInside
           DEF Step, Nest, TestLock, Acquire, SetFlag, ReturnLocked, Leave,
               TestUnlock, Release, ClearFlag
      <3>2. CASE Nest(g)
        BY <3>1, <3>2 DEF Nest, lockVars, Alone, Goto, TypeInv, TypeOK
      <3>3. CASE TestLock(g)
        BY <3>1, <3>3 DEF TestLock, lockVars, Alone, Goto, TypeInv, TypeOK
      <3>4. CASE Acquire(g)
        BY <3>1, <3>4 DEF Acquire, lockVars, Alone, Goto, TypeInv, TypeOK
      <3>5. CASE SetFlag(g)
        BY <3>1, <3>5 DEF SetFlag, lockVars, Alone, Goto, TypeInv, TypeOK
      <3>6. CASE ReturnLocked(g)
        BY <3>1, <3>6 DEF ReturnLocked, Return, lockVars, Alone, Goto, TypeInv, TypeOK
      <3>7. CASE Leave(g)
        BY <3>1, <3>7 DEF Leave, lockVars, Alone, Goto, TypeInv, TypeOK
      <3>8. CASE TestUnlock(g)
        BY <3>1, <3>8 DEF TestUnlock, Return, lockVars, Alone, Goto, TypeInv, TypeOK
      <3>9. CASE Release(g)
        BY <3>1, <3>9 DEF Release, lockVars, Alone, Goto, TypeInv, TypeOK
      <3>10. CASE ClearFlag(g)
        BY <3>1, <3>10 DEF ClearFlag, Return, lockVars, Alone, Goto, TypeInv, TypeOK
      <3> QED
        BY <2>s, <3>2, <3>3, <3>4, <3>5, <3>6, <3>7, <3>8, <3>9, <3>10 DEF Step
    <2> QED
      BY <2>1, <2>s
  <1> QED
    BY <1>u, <1>n

\* However many goroutines there are and however their calls are nested, calls that
\* never overlap neither unlock the mutex twice nor leave it locked with nobody to
\* unlock it: the flag makes the mutex one that can be locked again, for one
\* goroutine (ipam.go:85-97).
THEOREM LockSoundAlone == Spec => []AloneSound
  <1>1. Init => IInv
    BY TypeInit, AloneInit DEF IInv
  <1>2. IInv /\ [Next]_vars => IInv'
    BY TypeStep, AloneStep DEF IInv
  <1>3. IInv => AloneSound
    BY DEF IInv, Alone, AloneSound, Stuck
  <1> QED
    BY <1>1, <1>2, <1>3, PTL DEF Spec

-----------------------------------------------------------------------------
(***************************************************************************)
(* That such a call returns: nothing in it waits, and every step brings it *)
(* nearer to its end.                                                      *)
(***************************************************************************)

\* While no calls have overlapped nobody waits for the mutex, and the process runs.
NobodyWaits == ~ met => ~ fatal /\ \A g \in Goroutines : pc[g] = "acquire" => ~ mutex

\* Calls that never overlap never wait for the mutex: one that finds it locked by an
\* earlier accessor, its own or one that did not unlock, also finds the flag set
\* (ipam.go:85-89).
THEOREM AloneNeverWaits == Spec => []NobodyWaits
  <1>1. Init => IInv
    BY TypeInit, AloneInit DEF IInv
  <1>2. IInv /\ [Next]_vars => IInv'
    BY TypeStep, AloneStep DEF IInv
  <1>3. IInv => NobodyWaits
    BY DEF IInv, Alone, NobodyWaits
  <1> QED
    BY <1>1, <1>2, <1>3, PTL DEF Spec

\* What a call has before it: the rest of the accessor it is in, a return from each
\* one around it, and the accessors it may still use.
Stage(g) ==
    CASE pc[g] = "lock"    -> 7
      [] pc[g] = "acquire" -> 6
      [] pc[g] = "set"     -> 5
      [] pc[g] = "inside"  -> 4
      [] pc[g] = "unlock"  -> 3
      [] pc[g] = "release" -> 2
      [] pc[g] = "clear"   -> 1
      [] OTHER             -> 0

Rank(g) == IF pc[g] = "idle" THEN 0
           ELSE 8 * depth[g] + 16 * (MaxNested - nested[g]) + Stage(g)

Advances ==
    ~ met' => \A g \in Goroutines :
                  /\ Rank(g) \in Nat
                  /\ Step(g) => Rank(g)' < Rank(g)
                  /\ pc[g] # "idle" => Rank(g)' <= Rank(g)

LEMMA RankNat ==
    ASSUME TypeInv, NEW g \in Goroutines
    PROVE  Rank(g) \in Nat
  <1>1. depth[g] \in Nat /\ MaxNested - nested[g] \in Nat /\ Stage(g) \in Nat
    BY IpamLockAssumption DEF TypeInv, TypeOK, Stage
  <1> QED
    BY <1>1 DEF Rank

\* To return is to get nearer to the end from every step of an accessor.
LEMMA ReturnAdvances ==
    ASSUME TypeInv, NEW g \in Goroutines, pc[g] \in {"inside", "unlock", "clear"},
           Return(g)
    PROVE  Rank(g)' < Rank(g)
  <1>1. /\ depth[g] \in Nat /\ depth[g] > 0
        /\ nested[g] \in Nat /\ MaxNested - nested[g] \in Nat
    BY IpamLockAssumption DEF TypeInv, TypeOK
  <1>r. Rank(g) \in Nat
    BY RankNat
  <1>2. Rank(g) > 8 * depth[g] + 16 * (MaxNested - nested[g])
    BY <1>1 DEF Rank, Stage
  <1>3. CASE depth[g] = 1
    <2>1. Rank(g)' = 0
      BY <1>3 DEF Return, Goto, Rank, TypeInv, TypeOK
    <2> QED
      BY <1>1, <1>2, <1>r, <2>1
  <1>4. CASE depth[g] # 1
    <2>1. pc'[g] = "inside" /\ depth'[g] = depth[g] - 1 /\ nested'[g] = nested[g]
      BY <1>4 DEF Return, Goto, TypeInv, TypeOK
    <2>2. Rank(g)' = 8 * (depth[g] - 1) + 16 * (MaxNested - nested[g]) + 4
      BY <2>1 DEF Rank, Stage
    <2> QED
      BY <1>1, <1>2, <1>r, <2>2
  <1> QED
    BY <1>3, <1>4

LEMMA StepAdvances ==
    ASSUME TypeInv, Alone, NEW g \in Goroutines, Step(g)
    PROVE  Rank(g)' < Rank(g)
  <1>t. /\ depth[g] \in Nat
        /\ nested[g] \in Nat /\ MaxNested - nested[g] \in Nat
    BY IpamLockAssumption DEF TypeInv, TypeOK
  <1>r. Rank(g) \in Nat
    BY RankNat
  <1>1. CASE Nest(g)
    <2>1. /\ pc[g] = "inside" /\ pc'[g] \in {"lock", "inside"}
          /\ depth'[g] = depth[g] + 1 /\ nested'[g] = nested[g] + 1
      BY <1>1 DEF Nest, Goto, TypeInv, TypeOK
    <2>2. /\ Rank(g) = 8 * depth[g] + 16 * (MaxNested - nested[g]) + 4
          /\ \E last \in {4, 7} :
                 Rank(g)' = 8 * (depth[g] + 1) + 16 * (MaxNested - (nested[g] + 1)) + last
      BY <1>t, <2>1, IpamLockAssumption DEF Rank, Stage
    <2> QED
      BY <1>t, <1>r, <2>2, IpamLockAssumption
  <1>2. CASE ReturnLocked(g)
    BY <1>2, ReturnAdvances DEF ReturnLocked
  <1>3. CASE ClearFlag(g)
    BY <1>3, ReturnAdvances DEF ClearFlag
  <1>4. CASE TestUnlock(g) /\ ~ flag
    BY <1>4, ReturnAdvances DEF TestUnlock
  <1>5. CASE \/ TestLock(g) \/ Acquire(g) \/ SetFlag(g) \/ Leave(g)
             \/ (TestUnlock(g) /\ flag) \/ Release(g)
    <2>1. /\ pc[g] # "idle" /\ pc'[g] # "idle"
          /\ depth'[g] = depth[g] /\ nested'[g] = nested[g]
      BY <1>5 DEF TestLock, Acquire, SetFlag, Leave, TestUnlock, Release, Alone, Goto,
                  TypeInv, TypeOK
    <2>2. Stage(g)' < Stage(g) /\ Stage(g) \in Nat /\ Stage(g)' \in Nat
      BY <1>5 DEF TestLock, Acquire, SetFlag, Leave, TestUnlock, Release, Alone, Goto,
                  Stage, TypeInv, TypeOK
    <2>3. /\ Rank(g) = 8 * depth[g] + 16 * (MaxNested - nested[g]) + Stage(g)
          /\ Rank(g)' = 8 * depth[g] + 16 * (MaxNested - nested[g]) + Stage(g)'
      BY <2>1 DEF Rank
    <2> QED
      BY <1>t, <2>2, <2>3
  <1> QED
    BY <1>1, <1>2, <1>3, <1>4, <1>5 DEF Step

\* While no calls have overlapped, every step of a call lowers a number that nothing
\* else raises: however it nests accessors and methods and whichever of them unlock,
\* a call that is scheduled returns.
THEOREM AloneAdvances == Spec => [][Advances]_vars
  <1>1. Init => IInv
    BY TypeInit, AloneInit DEF IInv
  <1>2. IInv /\ [Next]_vars => IInv'
    BY TypeStep, AloneStep DEF IInv
  <1>3. IInv /\ [Next]_vars => [Advances]_vars
    <2> SUFFICES ASSUME IInv, Next, ~ met', NEW g \in Goroutines
                 PROVE  /\ Rank(g) \in Nat
                        /\ Step(g) => Rank(g)' < Rank(g)
                        /\ pc[g] # "idle" => Rank(g)' <= Rank(g)
      BY DEF Advances
    <2>1. TypeInv /\ TypeInv' /\ Alone
      <3>1. met => met'
        BY DEF Next, Call, Step, Nest, TestLock, Acquire, SetFlag, ReturnLocked, Leave,
               TestUnlock, Release, ClearFlag
      <3> QED
        BY <1>2, <3>1 DEF IInv
    <2>2. Rank(g) \in Nat /\ Rank(g)' \in Nat
      <3>1. Rank(g)' \in Nat
        <4>1. /\ depth'[g] \in Nat /\ MaxNested - nested'[g] \in Nat
              /\ Stage(g)' \in Nat
          BY <2>1, IpamLockAssumption DEF TypeInv, TypeOK, Stage
        <4> QED
          BY <4>1 DEF Rank
      <3> QED
        BY <2>1, <3>1, RankNat
    <2>3. Step(g) => Rank(g)' < Rank(g)
      BY <2>1, StepAdvances
    <2>4. ASSUME pc[g] # "idle" PROVE Rank(g)' <= Rank(g)
      <3>1. PICK h \in Goroutines : Call(h) \/ Step(h)
        BY DEF Next
      <3>2. h = g
        BY <2>1, <2>4, <3>1
           DEF Call, Calling, Alone, Step, Nest, TestLock, Acquire, SetFlag,
               ReturnLocked, Leave, TestUnlock, Release, ClearFlag
      <3>3. Step(g)
        BY <2>4, <3>1, <3>2 DEF Call
      <3> QED
        BY <2>2, <2>3, <3>3
    <2> QED
      BY <2>2, <2>3, <2>4
  <1> QED
    BY <1>1, <1>2, <1>3, PTL DEF Spec

=============================================================================
