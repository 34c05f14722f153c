----------------------------- MODULE FutexLock -----------------------------
(***************************************************************************)
(* The futex lock of src/locks.h, one atomic memory access or system call  *)
(* per step.  It guards the shared heap, the log, the global timestamp and *)
(* the shared levels of the memory system (zinfo->lock, nvc_lock,          *)
(* dram_lock, nvm_lock).                                                   *)
(*                                                                         *)
(* The word is 0 when free, 1 when held, 2 when held and somebody may be   *)
(* asleep in the kernel.  A thread spins SPINS times before it sleeps:     *)
(* five in futex_lock, one in futex_lock_nospin.  The threads that call    *)
(* futex_trylock_nospin_timeout instead (timed) give up after one sleep.   *)
(***************************************************************************)
EXTENDS Integers

CONSTANTS
  Threads,      \* the threads of all processes that share the lock
  NoThread,     \* not a thread
  SPINS         \* attempts before a thread blocks

ASSUME FutexAssumption == NoThread \notin Threads /\ SPINS \in Nat \ {0}

VARIABLES
  lock,         \* the lock word
  pc,           \* [Threads -> Stages]: where a thread stands
  tries,        \* [Threads -> 0 .. SPINS]: its failed attempts to spin
  timed         \* [Threads -> BOOLEAN]: it waits with a timeout

vars == <<lock, pc, tries, timed>>

Stages ==
  {"out",       \* not using the lock
   "spin",      \* about to test, and test-and-set
   "swap",      \* about to exchange the word for 2
   "wait",      \* about to call FUTEX_WAIT
   "asleep",    \* in the kernel
   "reswap",    \* back from the kernel, about to exchange again
   "cs",        \* holds the lock
   "clear",     \* in futex_unlock, about to store 0
   "wake"}      \* in futex_unlock, about to call FUTEX_WAKE

Init ==
  /\ lock = 0
  /\ pc = [t \in Threads |-> "out"]
  /\ tries = [t \in Threads |-> 0]
  /\ timed = [t \in Threads |-> FALSE]

Goto(t, stage) == pc' = [pc EXCEPT ![t] = stage]

\* A call of futex_lock or of futex_trylock_nospin_timeout.
Call(t) ==
  /\ pc[t] = "out"
  /\ Goto(t, "spin")
  /\ tries' = [tries EXCEPT ![t] = 0]
  /\ timed' \in {timed, [timed EXCEPT ![t] = ~@]}
  /\ UNCHANGED lock

\* *lock == 0 && compare_and_swap(lock, 0, 1)
TestAndSet(t) ==
  /\ pc[t] = "spin"
  /\ lock = 0
  /\ lock' = 1
  /\ Goto(t, "cs")
  /\ UNCHANGED <<tries, timed>>

SpinLimit(t) == IF timed[t] THEN 1 ELSE SPINS

\* MUTANT of SpinFails: one attempt more than the loop makes.
SpinFailsOnceMore(t) ==
  /\ pc[t] = "spin"
  /\ lock # 0
  /\ tries' = [tries EXCEPT ![t] = @ + 1]
  /\ IF tries[t] >= SpinLimit(t) THEN Goto(t, "swap") ELSE UNCHANGED pc
  /\ UNCHANGED <<lock, timed>>

\* The test or the compare_and_swap fails, which it does only if the word is
\* not 0 at that moment.
SpinFails(t) ==
  /\ pc[t] = "spin"
  /\ lock # 0
  /\ tries' = [tries EXCEPT ![t] = @ + 1]
  /\ IF tries[t] + 1 >= SpinLimit(t) THEN Goto(t, "swap") ELSE UNCHANGED pc
  /\ UNCHANGED <<lock, timed>>

\* MUTANT of Swap: a word that is 1 counts as free.
SwapAnyBut2(t) ==
  /\ pc[t] = "swap"
  /\ lock' = 2
  /\ Goto(t, IF lock # 2 THEN "cs" ELSE "wait")
  /\ UNCHANGED <<tries, timed>>

\* c = exchange(lock, 2); if (c == 0) return;
Swap(t) ==
  /\ pc[t] = "swap"
  /\ lock' = 2
  /\ Goto(t, IF lock = 0 THEN "cs" ELSE "wait")
  /\ UNCHANGED <<tries, timed>>

\* FUTEX_WAIT puts the caller to sleep only if the word is still 2.
FutexWait(t) ==
  /\ pc[t] = "wait"
  /\ Goto(t, IF lock = 2 THEN "asleep" ELSE "reswap")
  /\ UNCHANGED <<lock, tries, timed>>

\* The timeout ends the sleep.
Timeout(t) ==
  /\ pc[t] = "asleep"
  /\ timed[t]
  /\ Goto(t, "reswap")
  /\ UNCHANGED <<lock, tries, timed>>

\* MUTANT of Reswap: the word does not say that others may be asleep.
ReswapOne(t) ==
  /\ pc[t] = "reswap"
  /\ lock' = IF lock = 0 THEN 1 ELSE 2
  /\ Goto(t, IF lock = 0 THEN "cs" ELSE IF timed[t] THEN "out" ELSE "spin")
  /\ tries' = [tries EXCEPT ![t] = 0]
  /\ UNCHANGED timed

\* MUTANT of Reswap: a thread that was woken takes the lock for its own.
ReswapOwn(t) ==
  /\ pc[t] = "reswap"
  /\ lock' = 2
  /\ Goto(t, "cs")
  /\ tries' = [tries EXCEPT ![t] = 0]
  /\ UNCHANGED timed

\* The second exchange.  The word becomes 2 because others may be asleep too.
\* futex_lock starts over, the timed variant gives up.
Reswap(t) ==
  /\ pc[t] = "reswap"
  /\ lock' = 2
  /\ Goto(t, IF lock = 0 THEN "cs" ELSE IF timed[t] THEN "out" ELSE "spin")
  /\ tries' = [tries EXCEPT ![t] = 0]
  /\ UNCHANGED timed

\* MUTANT of Unlock: the word is cleared in one go and nobody is woken.
UnlockSilently(t) ==
  /\ pc[t] = "cs"
  /\ lock' = 0
  /\ Goto(t, "out")
  /\ UNCHANGED <<tries, timed>>

\* if (fetch_and_add(lock, -1) != 1)
Unlock(t) ==
  /\ pc[t] = "cs"
  /\ lock' = lock - 1
  /\ Goto(t, IF lock = 1 THEN "out" ELSE "clear")
  /\ UNCHANGED <<tries, timed>>

\* *lock = 0;
Clear(t) ==
  /\ pc[t] = "clear"
  /\ lock' = 0
  /\ Goto(t, "wake")
  /\ UNCHANGED <<tries, timed>>

Asleep == {t \in Threads : pc[t] = "asleep"}

\* FUTEX_WAKE wakes one sleeper, any of them, if there is one.
FutexWake(t) ==
  /\ pc[t] = "wake"
  /\ \/ Asleep = {} /\ Goto(t, "out")
     \/ \E u \in Asleep : pc' = [pc EXCEPT ![t] = "out", ![u] = "reswap"]
  /\ UNCHANGED <<lock, tries, timed>>

\* The steps a thread takes on its own account once it has called.
Proceed(t) ==
  \/ TestAndSet(t) \/ SpinFails(t) \/ Swap(t) \/ FutexWait(t) \/ Timeout(t)
  \/ Reswap(t) \/ Unlock(t) \/ Clear(t) \/ FutexWake(t)

Next == \E t \in Threads : Call(t) \/ Proceed(t)

Spec == Init /\ [][Next]_vars

\* The scheduler runs every thread that is not asleep, critical sections end,
\* and a timeout expires.
FairSpec == Spec /\ \A t \in Threads : WF_vars(Proceed(t))

-----------------------------------------------------------------------------
(* Properties *)

TypeOK ==
  /\ lock \in 0 .. 2
  /\ pc \in [Threads -> Stages]
  /\ tries \in [Threads -> 0 .. SPINS]
  /\ timed \in [Threads -> BOOLEAN]

\* Inside the critical section, or in futex_unlock before the word is 0.
Holds(t) == pc[t] \in {"cs", "clear"}

\* At most one thread is between the return of futex_lock and the store that
\* frees the word, whatever the others exchange into it meanwhile.
MutualExclusion == \A t, u \in Threads : Holds(t) /\ Holds(u) => t = u

\* No wake-up is lost: while somebody sleeps, the word is 2, so that whoever
\* unlocks will wake one, or somebody is already on the way to wake one, or
\* to write the 2 again after being woken.
NoLostWakeup ==
  Asleep # {} => lock = 2 \/ \E t \in Threads : pc[t] \in {"clear", "wake", "reswap"}

\* A thread is left asleep for good only if others keep taking the lock: the
\* lock is unfair, as its comment says, but it does not stall.
SleeperOnlyOvertaken ==
  \A t \in Threads :
    <>[](pc[t] = "asleep") => []<>(\E u \in Threads : pc[u] = "cs")

\* The lock as its callers see it.
Holder == IF \E t \in Threads : Holds(t) THEN CHOOSE t \in Threads : Holds(t) ELSE NoThread

Abstract == INSTANCE Mutex WITH holder <- Holder

\* The lock word, the system calls and the retries together do nothing but
\* hand over a mutex.
ImplementsMutex == Abstract!Spec
=============================================================================
