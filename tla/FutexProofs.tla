---------------------------- MODULE FutexProofs ----------------------------
(***************************************************************************)
(* Proofs about FutexLock, for every set of threads and number of spins.   *)
(***************************************************************************)
EXTENDS FutexLock, TLAPS

\* The word is not 0 while somebody holds the lock.
HeldWord == \A t \in Threads : Holds(t) => lock # 0

\* A thread that spins has attempts left.
SpinsLeft == \A t \in Threads : pc[t] = "spin" => tries[t] < SPINS

\* MutualExclusion is not inductive without the word: a thread enters because
\* it read 0, and only HeldWord says that nobody is inside then.
IInv ==
  /\ TypeOK
  /\ SpinsLeft
  /\ MutualExclusion
  /\ HeldWord
  /\ NoLostWakeup

\* futex_init establishes the invariant.
LEMMA InitIInv == Init => IInv
<1>. SUFFICES ASSUME Init PROVE IInv
  OBVIOUS
<1>1. TypeOK
  BY FutexAssumption DEF Init, TypeOK, Stages
<1>2. SpinsLeft /\ MutualExclusion /\ HeldWord /\ NoLostWakeup
  BY DEF Init, SpinsLeft, MutualExclusion, HeldWord, NoLostWakeup, Holds, Asleep
<1>. QED BY <1>1, <1>2 DEF IInv

\* A step of one thread that neither takes nor frees the lock.
LEMMA Bystander ==
  ASSUME IInv, NEW t \in Threads, NEW stage \in Stages \ {"cs", "clear"},
         Goto(t, stage), ~Holds(t), lock' \in 0 .. 2, lock # 0 => lock' # 0
  PROVE  MutualExclusion' /\ HeldWord'
<1>1. \A u \in Threads : Holds(u)' => Holds(u)
  BY DEF IInv, TypeOK, Goto, Holds
<1>2. MutualExclusion'
  BY <1>1 DEF IInv, MutualExclusion
<1>3. HeldWord'
  BY <1>1 DEF IInv, HeldWord
<1>. QED BY <1>2, <1>3

\* A thread that reads 0 is the only one to hold the lock afterwards.
LEMMA Enters ==
  ASSUME IInv, NEW t \in Threads, lock = 0, lock' # 0, Goto(t, "cs")
  PROVE  MutualExclusion' /\ HeldWord'
<1>1. \A u \in Threads : ~Holds(u)
  BY DEF IInv, HeldWord
<1>2. \A u \in Threads : Holds(u)' => u = t
  BY <1>1 DEF IInv, TypeOK, Goto, Holds
<1>. QED BY <1>2 DEF MutualExclusion, HeldWord

\* The word stays meaningful to sleepers if it is set to 2, or if nobody new
\* sleeps and a thread on its way to repair it stays on its way.
LEMMA Sleepers ==
  ASSUME IInv, NEW t \in Threads, NEW stage \in Stages, Goto(t, stage),
         \/ lock' = 2
         \/ stage \in {"clear", "wake", "reswap"}
         \/ /\ stage # "asleep"
            /\ pc[t] \notin {"clear", "wake", "reswap"}
            /\ lock = 2 => lock' = 2
  PROVE  NoLostWakeup'
<1>1. pc \in [Threads -> Stages] /\ pc' = [pc EXCEPT ![t] = stage]
  BY DEF IInv, TypeOK, Goto
<1>2. CASE lock' = 2
  BY <1>2 DEF NoLostWakeup
<1>3. CASE stage \in {"clear", "wake", "reswap"}
  BY <1>1, <1>3 DEF NoLostWakeup
<1>4. CASE /\ stage # "asleep"
           /\ pc[t] \notin {"clear", "wake", "reswap"}
           /\ lock = 2 => lock' = 2
  <2>1. Asleep' \subseteq Asleep
    BY <1>1, <1>4 DEF Asleep
  <2>2. \A u \in Threads : pc[u] \in {"clear", "wake", "reswap"} => pc'[u] = pc[u]
    BY <1>1, <1>4
  <2>. QED BY <1>4, <2>1, <2>2 DEF IInv, NoLostWakeup
<1>. QED BY <1>2, <1>3, <1>4

\* A thread goes on spinning only while it has attempts left.
LEMMA SpinStep ==
  ASSUME IInv, NEW t \in Threads, Call(t) \/ Proceed(t)
  PROVE  SpinsLeft'
<1>. USE DEF SpinsLeft, Goto
<1>1. /\ pc \in [Threads -> Stages] /\ tries \in [Threads -> 0 .. SPINS]
      /\ \A u \in Threads : pc[u] = "spin" => tries[u] < SPINS
  BY DEF IInv, TypeOK
<1>2. CASE Call(t)
  BY <1>1, <1>2, FutexAssumption DEF Call
<1>3. CASE TestAndSet(t)
  BY <1>1, <1>3 DEF TestAndSet
<1>4. CASE SpinFails(t)
  <2>1. tries' = [tries EXCEPT ![t] = tries[t] + 1]
    BY <1>4 DEF SpinFails
  <2>2. ASSUME pc'[t] = "spin" PROVE tries[t] + 1 < SPINS
    <3>1. ~(tries[t] + 1 >= SpinLimit(t))
      BY <1>1, <1>4, <2>2 DEF SpinFails
    <3>2. SpinLimit(t) <= SPINS /\ SpinLimit(t) \in Nat
      BY FutexAssumption DEF SpinLimit
    <3>. QED BY <1>1, <3>1, <3>2, FutexAssumption
  <2>3. \A u \in Threads \ {t} : pc'[u] = pc[u]
    BY <1>1, <1>4 DEF SpinFails
  <2>. QED BY <1>1, <2>1, <2>2, <2>3
<1>5. CASE Swap(t)
  BY <1>1, <1>5 DEF Swap
<1>6. CASE FutexWait(t) \/ Timeout(t)
  BY <1>1, <1>6 DEF FutexWait, Timeout
<1>7. CASE Reswap(t)
  BY <1>1, <1>7, FutexAssumption DEF Reswap
<1>8. CASE Unlock(t) \/ Clear(t)
  BY <1>1, <1>8 DEF Unlock, Clear
<1>9. CASE FutexWake(t)
  BY <1>1, <1>9 DEF FutexWake, Asleep
<1>. QED BY <1>2, <1>3, <1>4, <1>5, <1>6, <1>7, <1>8, <1>9 DEF Proceed

\* Every step of a thread keeps the invariant.
LEMMA ProceedIInv ==
  ASSUME IInv, NEW t \in Threads, Call(t) \/ Proceed(t)
  PROVE  IInv'
<1>0. SpinsLeft'
  BY SpinStep
<1>1. CASE Call(t)
  <2>1. Goto(t, "spin") /\ lock' = lock /\ pc[t] = "out"
    BY <1>1 DEF Call
  <2>2. TypeOK'
    <3>1. timed' \in [Threads -> BOOLEAN]
      BY <1>1 DEF IInv, TypeOK, Call
    <3>2. tries' \in [Threads -> 0 .. SPINS]
      BY <1>1, FutexAssumption DEF IInv, TypeOK, Call
    <3>. QED BY <1>1, <3>1, <3>2 DEF IInv, TypeOK, Call, Goto, Stages
  <2>3. MutualExclusion' /\ HeldWord'
    BY <2>1, <2>2, Bystander DEF Holds, Stages, TypeOK
  <2>4. NoLostWakeup'
    BY <2>1, Sleepers DEF Stages
  <2>. QED BY <1>0, <2>2, <2>3, <2>4 DEF IInv
<1>2. CASE TestAndSet(t)
  <2>1. Goto(t, "cs") /\ lock = 0 /\ lock' = 1 /\ pc[t] = "spin"
    BY <1>2 DEF TestAndSet
  <2>2. TypeOK'
    BY <1>2 DEF IInv, TypeOK, TestAndSet, Goto, Stages
  <2>3. MutualExclusion' /\ HeldWord'
    BY <2>1, Enters
  <2>4. NoLostWakeup'
    BY <2>1, Sleepers DEF Stages
  <2>. QED BY <1>0, <2>2, <2>3, <2>4 DEF IInv
<1>3. CASE SpinFails(t)
  <2>1. lock' = lock /\ lock \in 0 .. 2 /\ pc[t] = "spin" /\ pc \in [Threads -> Stages]
    BY <1>3 DEF SpinFails, IInv, TypeOK
  <2>2. PICK stage \in {"spin", "swap"} : Goto(t, stage)
    <3>1. CASE Goto(t, "swap")
      BY <3>1
    <3>2. CASE UNCHANGED pc
      BY <2>1, <3>2 DEF Goto
    <3>. QED BY <1>3, <3>1, <3>2 DEF SpinFails
  <2>3. TypeOK'
    <3>1. tries' \in [Threads -> 0 .. SPINS]
      <4>1. tries \in [Threads -> 0 .. SPINS] /\ tries' = [tries EXCEPT ![t] = tries[t] + 1]
        BY <1>3 DEF SpinFails, IInv, TypeOK
      <4>2. tries[t] + 1 \in 0 .. SPINS
        BY <1>3, <4>1, FutexAssumption DEF SpinFails, IInv, SpinsLeft
      <4>. QED BY <4>1, <4>2
    <3>. QED BY <1>3, <2>1, <2>2, <3>1 DEF IInv, TypeOK, SpinFails, Goto, Stages
  <2>4. MutualExclusion' /\ HeldWord'
    BY <2>1, <2>2, Bystander DEF Holds, Stages
  <2>5. NoLostWakeup'
    BY <2>1, <2>2, Sleepers DEF Stages
  <2>. QED BY <1>0, <2>3, <2>4, <2>5 DEF IInv
<1>4. CASE Swap(t)
  <2>1. lock' = 2 /\ pc[t] = "swap"
    BY <1>4 DEF Swap
  <2>2. TypeOK'
    BY <1>4 DEF IInv, TypeOK, Swap, Goto, Stages
  <2>3. MutualExclusion' /\ HeldWord'
    BY <1>4, <2>1, Enters, Bystander DEF Swap, Holds, Stages
  <2>4. NoLostWakeup'
    BY <2>1 DEF NoLostWakeup
  <2>. QED BY <1>0, <2>2, <2>3, <2>4 DEF IInv
<1>5. CASE FutexWait(t)
  <2>1. lock' = lock /\ lock \in 0 .. 2 /\ pc[t] = "wait"
    BY <1>5 DEF FutexWait, IInv, TypeOK
  <2>2. (Goto(t, "asleep") /\ lock = 2) \/ Goto(t, "reswap")
    BY <1>5 DEF FutexWait
  <2>3. TypeOK'
    BY <1>5 DEF IInv, TypeOK, FutexWait, Goto, Stages
  <2>4. MutualExclusion' /\ HeldWord'
    BY <2>1, <2>2, Bystander DEF Holds, Stages
  <2>5. NoLostWakeup'
    BY <2>1, <2>2, Sleepers DEF Stages
  <2>. QED BY <1>0, <2>3, <2>4, <2>5 DEF IInv
<1>6. CASE Timeout(t)
  <2>1. lock' = lock /\ lock \in 0 .. 2 /\ pc[t] = "asleep" /\ Goto(t, "reswap")
    BY <1>6 DEF Timeout, IInv, TypeOK
  <2>2. TypeOK'
    BY <1>6 DEF IInv, TypeOK, Timeout, Goto, Stages
  <2>3. MutualExclusion' /\ HeldWord'
    BY <2>1, Bystander DEF Holds, Stages
  <2>4. NoLostWakeup'
    BY <2>1, Sleepers DEF Stages
  <2>. QED BY <1>0, <2>2, <2>3, <2>4 DEF IInv
<1>7. CASE Reswap(t)
  <2>1. lock' = 2 /\ pc[t] = "reswap"
    BY <1>7 DEF Reswap
  <2>2. TypeOK'
    BY <1>7, FutexAssumption DEF IInv, TypeOK, Reswap, Goto, Stages
  <2>3. MutualExclusion' /\ HeldWord'
    BY <1>7, <2>1, Enters, Bystander DEF Reswap, Holds, Stages
  <2>4. NoLostWakeup'
    BY <2>1 DEF NoLostWakeup
  <2>. QED BY <1>0, <2>2, <2>3, <2>4 DEF IInv
<1>8. CASE Unlock(t)
  <2>1. /\ pc[t] = "cs" /\ lock \in 1 .. 2 /\ lock' = lock - 1
        /\ pc \in [Threads -> Stages]
        /\ \/ Goto(t, "out") /\ lock = 1
           \/ Goto(t, "clear") /\ lock = 2
    BY <1>8 DEF Unlock, IInv, TypeOK, HeldWord, Holds
  <2>2. TypeOK'
    BY <1>8, <2>1 DEF IInv, TypeOK, Unlock, Goto, Stages
  <2>3. \A u \in Threads : Holds(u)' => u = t /\ lock = 2
    BY <2>1 DEF IInv, MutualExclusion, Holds, Goto
  <2>4. MutualExclusion' /\ HeldWord'
    BY <2>1, <2>3 DEF MutualExclusion, HeldWord
  <2>5. NoLostWakeup'
    BY <2>1, Sleepers DEF Stages
  <2>. QED BY <1>0, <2>2, <2>4, <2>5 DEF IInv
<1>9. CASE Clear(t)
  <2>1. pc[t] = "clear" /\ lock' = 0 /\ Goto(t, "wake") /\ pc \in [Threads -> Stages]
    BY <1>9 DEF Clear, IInv, TypeOK
  <2>2. TypeOK'
    BY <1>9 DEF IInv, TypeOK, Clear, Goto, Stages
  <2>3. \A u \in Threads : ~Holds(u)'
    BY <2>1 DEF IInv, MutualExclusion, Holds, Goto
  <2>4. MutualExclusion' /\ HeldWord'
    BY <2>3 DEF MutualExclusion, HeldWord
  <2>5. NoLostWakeup'
    BY <2>1, Sleepers DEF Stages
  <2>. QED BY <1>0, <2>2, <2>4, <2>5 DEF IInv
<1>10. CASE FutexWake(t)
  <2>1. pc[t] = "wake" /\ lock' = lock /\ pc \in [Threads -> Stages]
    BY <1>10 DEF FutexWake, IInv, TypeOK
  <2>2. CASE Asleep = {} /\ Goto(t, "out")
    <3>1. TypeOK'
      BY <1>10, <2>2 DEF IInv, TypeOK, FutexWake, Goto, Stages
    <3>2. \A u \in Threads : Holds(u)' => Holds(u)
      BY <2>1, <2>2 DEF Holds, Goto
    <3>3. Asleep' = {}
      BY <2>1, <2>2 DEF Asleep, Goto
    <3>. QED BY <1>0, <2>1, <3>1, <3>2, <3>3 DEF IInv, MutualExclusion, HeldWord, NoLostWakeup
  <2>3. ASSUME NEW v \in Asleep, pc' = [pc EXCEPT ![t] = "out", ![v] = "reswap"]
        PROVE  IInv'
    <3>1. TypeOK'
      BY <1>10, <2>3 DEF IInv, TypeOK, FutexWake, Stages
    <3>2. \A u \in Threads : Holds(u)' => Holds(u)
      BY <2>1, <2>3 DEF Holds
    <3>3. v \in Threads /\ pc'[v] = "reswap"
      BY <2>1, <2>3 DEF Asleep
    <3>. QED BY <1>0, <2>1, <3>1, <3>2, <3>3 DEF IInv, MutualExclusion, HeldWord, NoLostWakeup
  <2>. QED BY <1>10, <2>2, <2>3 DEF FutexWake
<1>. QED BY <1>1, <1>2, <1>3, <1>4, <1>5, <1>6, <1>7, <1>8, <1>9, <1>10 DEF Proceed

\* Every step of the lock keeps the invariant.
LEMMA NextIInv == IInv /\ [Next]_vars => IInv'
<1>. SUFFICES ASSUME IInv, [Next]_vars PROVE IInv'
  OBVIOUS
<1>1. CASE Next
  BY <1>1, ProceedIInv DEF Next
<1>2. CASE UNCHANGED vars
  BY <1>2 DEF vars, IInv, TypeOK, SpinsLeft, MutualExclusion, HeldWord, NoLostWakeup, Holds, Asleep
<1>. QED BY <1>1, <1>2

\* The inductive invariant holds in every reachable state.
THEOREM Invariance == Spec => []IInv
BY InitIInv, NextIInv, PTL DEF Spec

\* The word stays in 0 .. 2 and no thread spins more than SPINS times.
THEOREM TypeCorrect == Spec => []TypeOK
<1>1. IInv => TypeOK
  BY DEF IInv
<1>. QED BY <1>1, Invariance, PTL

\* futex_lock admits one thread at a time.
THEOREM MutualExclusionHolds == Spec => []MutualExclusion
<1>1. IInv => MutualExclusion
  BY DEF IInv
<1>. QED BY <1>1, Invariance, PTL

\* No sleeper is ever forgotten by the word and by everybody else.
THEOREM NoLostWakeupHolds == Spec => []NoLostWakeup
<1>1. IInv => NoLostWakeup
  BY DEF IInv
<1>. QED BY <1>1, Invariance, PTL

-----------------------------------------------------------------------------
(* FutexLock implements Mutex *)

\* With at most one holder, Holder names it.
LEMMA HolderIs ==
  ASSUME MutualExclusion
  PROVE  /\ \A t \in Threads : Holds(t) => Holder = t
         /\ (\A t \in Threads : ~Holds(t)) => Holder = NoThread
BY DEF MutualExclusion, Holder

\* The same in the next state.
LEMMA HolderIsNext ==
  ASSUME MutualExclusion'
  PROVE  /\ \A t \in Threads : Holds(t)' => Holder' = t
         /\ (\A t \in Threads : ~Holds(t)') => Holder' = NoThread
BY DEF MutualExclusion, Holder

\* If the same threads hold the lock before and after, its holder is the same.
LEMMA HolderSame ==
  ASSUME IInv, IInv', \A u \in Threads : Holds(u)' <=> Holds(u)
  PROVE  Holder' = Holder
<1>1. CASE \E u \in Threads : Holds(u)
  BY <1>1, HolderIs, HolderIsNext DEF IInv
<1>2. CASE \A u \in Threads : ~Holds(u)
  BY <1>2, HolderIs, HolderIsNext DEF IInv
<1>. QED BY <1>1, <1>2

\* A step that reads 0 and enters is an acquisition.
LEMMA EnterAcquires ==
  ASSUME IInv, IInv', NEW t \in Threads, lock = 0, Goto(t, "cs")
  PROVE  Abstract!Acquire(t)
<1>1. \A u \in Threads : ~Holds(u)
  BY DEF IInv, HeldWord
<1>2. Holds(t)'
  BY DEF IInv, TypeOK, Goto, Holds
<1>. QED BY <1>1, <1>2, HolderIs, HolderIsNext DEF IInv, Abstract!Acquire

\* Every step is an acquisition, a release or invisible to the callers.
LEMMA StepImplements ==
  ASSUME IInv, IInv', [Next]_vars
  PROVE  [Abstract!Next]_Holder
<1>1. CASE UNCHANGED vars
  <2>1. \A u \in Threads : Holds(u)' <=> Holds(u)
    BY <1>1 DEF vars, Holds
  <2>. QED BY <2>1, HolderSame
<1>2. ASSUME NEW t \in Threads, Call(t) \/ Proceed(t)
      PROVE  [Abstract!Next]_Holder
  <2>. USE DEF Abstract!Next
  <2>1. pc \in [Threads -> Stages]
    BY DEF IInv, TypeOK
  <2>2. CASE lock = 0 /\ Goto(t, "cs")
    BY <2>2, EnterAcquires
  <2>3. CASE (Unlock(t) /\ lock = 1) \/ Clear(t)
    <3>1. Holds(t) /\ (Goto(t, "out") \/ Goto(t, "wake"))
      BY <2>3 DEF Unlock, Clear, Holds
    <3>2. \A u \in Threads : ~Holds(u)'
      BY <2>1, <3>1 DEF IInv, MutualExclusion, Holds, Goto
    <3>3. Abstract!Release(t)
      BY <3>1, <3>2, HolderIs, HolderIsNext DEF IInv, Abstract!Release
    <3>. QED BY <3>3
  <2>4. CASE Unlock(t) /\ lock # 1
    <3>1. \A u \in Threads : Holds(u)' <=> Holds(u)
      BY <2>1, <2>4 DEF Unlock, Goto, Holds
    <3>. QED BY <3>1, HolderSame
  <2>5. CASE \/ Call(t) \/ SpinFails(t) \/ FutexWait(t) \/ Timeout(t) \/ FutexWake(t)
             \/ (Swap(t) /\ lock # 0) \/ (Reswap(t) /\ lock # 0)
    <3>1. \A u \in Threads : Holds(u)' <=> Holds(u)
      BY <2>1, <2>5 DEF Call, SpinFails, FutexWait, Timeout, FutexWake, Swap, Reswap,
         Goto, Holds, Asleep
    <3>. QED BY <3>1, HolderSame
  <2>. QED BY <1>2, <2>2, <2>3, <2>4, <2>5 DEF Proceed, TestAndSet, Swap, Reswap
<1>. QED BY <1>1, <1>2 DEF Next

\* The futex lock is a mutex: with Holder as its holder, every behaviour of
\* the lock word and of the sleeping threads is a behaviour of Mutex.
THEOREM Refinement == Spec => ImplementsMutex
<1>1. Init => Abstract!Init
  <2>. SUFFICES ASSUME Init PROVE Abstract!Init
    OBVIOUS
  <2>1. \A t \in Threads : ~Holds(t)
    BY DEF Init, Holds
  <2>. QED BY <2>1, InitIInv, HolderIs DEF IInv, Abstract!Init
<1>2. IInv /\ IInv' /\ [Next]_vars => [Abstract!Next]_Holder
  BY StepImplements
<1>. QED BY <1>1, <1>2, Invariance, PTL DEF Spec, ImplementsMutex, Abstract!Spec
=============================================================================
