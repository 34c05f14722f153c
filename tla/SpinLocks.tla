----------------------------- MODULE SpinLocks -----------------------------
(***************************************************************************)
(* The spin lock and the ticket lock of src/locks.h, one atomic memory     *)
(* access per step.  The two differ in what the 32-bit word means, so that *)
(* one module has both: kind says which one the threads use.               *)
(*                                                                         *)
(* The word is shown as its two 16-bit halves.  The spin lock uses the low *)
(* one, 0 when free and 1 when held.  In the ticket lock the low half is   *)
(* the next ticket to give out and the high half the one being served;     *)
(* both wrap at TicketMod, which is 2^16 in the code.                      *)
(*                                                                         *)
(* A build with WITH_MWAIT (mwait) does not poll: it arms a monitor on the *)
(* word's cache line, tests the word once more, and halts until somebody   *)
(* writes to the line or an interrupt comes.                               *)
(***************************************************************************)
EXTENDS Integers, FiniteSets

CONSTANTS
  Threads,      \* the threads that share the lock
  NoThread,     \* not a thread
  TicketMod     \* tickets before the halves wrap

\* "Will not work with more than 64K threads" (src/locks.h:90)
ASSUME SpinLocksAssumption ==
  /\ NoThread \notin Threads
  /\ IsFiniteSet(Threads)
  /\ TicketMod \in Nat \ {0, 1}
  /\ Cardinality(Threads) <= TicketMod

VARIABLES
  kind,         \* "spin" or "ticket"
  mwait,        \* TRUE in a build WITH_MWAIT
  word,         \* the lock word, [hi, lo]
  pc,           \* [Threads -> Stages]: where a thread stands
  val,          \* [Threads -> Words]: the word as ticket_lock last read it
  armed         \* [Threads -> BOOLEAN]: its monitor waits for a write

vars == <<kind, mwait, word, pc, val, armed>>

Halves == 0 .. TicketMod - 1
Words  == [hi : Halves, lo : Halves]
Free   == [hi |-> 0, lo |-> 0]
Taken  == [hi |-> 0, lo |-> 1]

Stages ==
  {"out",       \* not using the lock
   "test",      \* in *_lock, about to read the word
   "cas",       \* in *_lock, about to compare-and-swap it
   "await",     \* in ticket_lock with a ticket, about to read the word
   "monitor",   \* about to arm the monitor
   "retest",    \* about to test the word again
   "mwait",     \* halted
   "try",       \* in *_trylock, about to read the word
   "trycas",    \* in *_trylock, about to compare-and-swap it
   "cs"}        \* holds the lock

Init ==
  /\ kind \in {"spin", "ticket"}
  /\ mwait \in BOOLEAN
  /\ word = Free
  /\ pc = [t \in Threads |-> "out"]
  /\ val = [t \in Threads |-> Free]
  /\ armed = [t \in Threads |-> FALSE]

Goto(t, stage) == pc' = [pc EXCEPT ![t] = stage]

\* A write to the word ends every monitor armed on it.
Write(w) == word' = w /\ armed' = [t \in Threads |-> FALSE]

Next1(half) == (half + 1) % TicketMod

\* val does not outlive the call, and nobody reads it after the ticket is used.
Forget(t) == val' = [val EXCEPT ![t] = Free]

\* A call of *_lock or of *_trylock.
Call(t) ==
  /\ pc[t] = "out"
  /\ pc' \in {[pc EXCEPT ![t] = "test"], [pc EXCEPT ![t] = "try"]}
  /\ UNCHANGED <<kind, mwait, word, val, armed>>

\* Where a thread goes when it finds the lock busy: back to reading the word,
\* past the monitor if there is one.
Busy(t, again) == Goto(t, IF mwait THEN "monitor" ELSE again)

\* *lock == 0
SpinTest(t) ==
  /\ kind = "spin"
  /\ pc[t] = "test"
  /\ IF word = Free THEN Goto(t, "cas") ELSE Busy(t, "test")
  /\ UNCHANGED <<kind, mwait, word, val, armed>>

\* MUTANT of SpinCas: test and set in two steps.
SpinCasBlind(t) ==
  /\ kind = "spin"
  /\ pc[t] = "cas"
  /\ Goto(t, "cs")
  /\ Write(Taken)
  /\ UNCHANGED <<kind, mwait, val>>

\* compare_and_swap(lock, 0, 1)
SpinCas(t) ==
  /\ kind = "spin"
  /\ pc[t] = "cas"
  /\ \/ word = Free /\ Goto(t, "cs") /\ Write(Taken)
     \/ word # Free /\ Busy(t, "test") /\ UNCHANGED <<word, armed>>
  /\ UNCHANGED <<kind, mwait, val>>

SpinTry(t) ==
  /\ kind = "spin"
  /\ pc[t] = "try"
  /\ Goto(t, IF word = Free THEN "trycas" ELSE "out")
  /\ UNCHANGED <<kind, mwait, word, val, armed>>

SpinTryCas(t) ==
  /\ kind = "spin"
  /\ pc[t] = "trycas"
  /\ \/ word = Free /\ Goto(t, "cs") /\ Write(Taken)
     \/ word # Free /\ Goto(t, "out") /\ UNCHANGED <<word, armed>>
  /\ UNCHANGED <<kind, mwait, val>>

\* val = *lock;
TicketRead(t) ==
  /\ kind = "ticket"
  /\ pc[t] = "test"
  /\ val' = [val EXCEPT ![t] = word]
  /\ Goto(t, "cas")
  /\ UNCHANGED <<kind, mwait, word, armed>>

\* MUTANT of TicketCas: another thread's ticket does not matter.
TicketCasBlind(t) ==
  /\ kind = "ticket"
  /\ pc[t] = "cas"
  /\ Write([hi |-> val[t].hi, lo |-> Next1(val[t].lo)])
  /\ Goto(t, "await")
  /\ UNCHANGED <<kind, mwait, val>>

\* compare_and_swap(lock, val, (hi | newLo))
TicketCas(t) ==
  /\ kind = "ticket"
  /\ pc[t] = "cas"
  /\ \/ /\ word = val[t]
        /\ Write([word EXCEPT !.lo = Next1(@)])
        /\ Goto(t, "await")
     \/ word # val[t] /\ Goto(t, "test") /\ UNCHANGED <<word, armed>>
  /\ UNCHANGED <<kind, mwait, val>>

\* The high half is compared with the ticket.
TicketAwait(t) ==
  /\ kind = "ticket"
  /\ pc[t] = "await"
  /\ \/ word.hi = val[t].lo /\ Goto(t, "cs") /\ Forget(t)
     \/ word.hi # val[t].lo /\ Busy(t, "await") /\ UNCHANGED val
  /\ UNCHANGED <<kind, mwait, word, armed>>

\* MUTANT of TicketTry: a busy lock is not up for grabs, but is taken.
TicketTryAnyway(t) ==
  /\ kind = "ticket"
  /\ pc[t] = "try"
  /\ val' = [val EXCEPT ![t] = word]
  /\ Goto(t, "trycas")
  /\ UNCHANGED <<kind, mwait, word, armed>>

\* hi == lo
TicketTry(t) ==
  /\ kind = "ticket"
  /\ pc[t] = "try"
  /\ IF word.hi = word.lo
       THEN Goto(t, "trycas") /\ val' = [val EXCEPT ![t] = word]
       ELSE Goto(t, "out") /\ UNCHANGED val
  /\ UNCHANGED <<kind, mwait, word, armed>>

TicketTryCas(t) ==
  /\ kind = "ticket"
  /\ pc[t] = "trycas"
  /\ \/ word = val[t] /\ Goto(t, "cs") /\ Write([word EXCEPT !.lo = Next1(@)])
     \/ word # val[t] /\ Goto(t, "out") /\ UNCHANGED <<word, armed>>
  /\ Forget(t)
  /\ UNCHANGED <<kind, mwait>>

\* _mm_monitor
Monitor(t) ==
  /\ pc[t] = "monitor"
  /\ armed' = [armed EXCEPT ![t] = TRUE]
  /\ Goto(t, "retest")
  /\ UNCHANGED <<kind, mwait, word, val>>

Loop == IF kind = "spin" THEN "test" ELSE "await"

\* MUTANT of Retest: the word is not tested again.
RetestNot(t) ==
  /\ pc[t] = "retest"
  /\ Goto(t, "mwait")
  /\ UNCHANGED <<kind, mwait, word, val, armed>>

\* if (*lock) _mm_mwait(0, 0);
Retest(t) ==
  /\ pc[t] = "retest"
  /\ Goto(t, IF word # Free THEN "mwait" ELSE Loop)
  /\ UNCHANGED <<kind, mwait, word, val, armed>>

\* mwait does not halt, or ends, once the line has been written to.
WriteWakes(t) ==
  /\ pc[t] = "mwait"
  /\ ~armed[t]
  /\ Goto(t, Loop)
  /\ UNCHANGED <<kind, mwait, word, val, armed>>

\* An interrupt ends it too.
Interrupt(t) ==
  /\ pc[t] = "mwait"
  /\ armed' = [armed EXCEPT ![t] = FALSE]
  /\ Goto(t, Loop)
  /\ UNCHANGED <<kind, mwait, word, val>>

\* spin_unlock stores 0.
SpinUnlock(t) ==
  /\ kind = "spin"
  /\ pc[t] = "cs"
  /\ Write(Free)
  /\ Goto(t, "out")
  /\ UNCHANGED <<kind, mwait, val>>

\* MUTANT of TicketUnlock: the sum does not wrap where the tickets do.
TicketUnlockLate(t) ==
  /\ kind = "ticket"
  /\ pc[t] = "cs"
  /\ Write([word EXCEPT !.hi = (@ + 1) % (TicketMod + 1)])
  /\ Goto(t, "out")
  /\ UNCHANGED <<kind, mwait, val>>

\* fetch_and_add(lock, 1<<16), whose carry falls off the word.
TicketUnlock(t) ==
  /\ kind = "ticket"
  /\ pc[t] = "cs"
  /\ Write([word EXCEPT !.hi = Next1(@)])
  /\ Goto(t, "out")
  /\ UNCHANGED <<kind, mwait, val>>

\* What a thread does on its own account once it has called.
Proceed(t) ==
  \/ SpinTest(t) \/ SpinCas(t) \/ SpinTry(t) \/ SpinTryCas(t) \/ SpinUnlock(t)
  \/ TicketRead(t) \/ TicketCas(t) \/ TicketAwait(t)
  \/ TicketTry(t) \/ TicketTryCas(t) \/ TicketUnlock(t)
  \/ Monitor(t) \/ Retest(t) \/ WriteWakes(t)

Next == \E t \in Threads : Call(t) \/ Proceed(t) \/ Interrupt(t)

Spec == Init /\ [][Next]_vars

\* Threads run and critical sections end.  No interrupt is ever promised.
FairSpec == Spec /\ \A t \in Threads : WF_vars(Proceed(t))

-----------------------------------------------------------------------------
(* Properties *)

TypeOK ==
  /\ kind \in {"spin", "ticket"}
  /\ mwait \in BOOLEAN
  /\ word \in Words
  /\ pc \in [Threads -> Stages]
  /\ val \in [Threads -> Words]
  /\ armed \in [Threads -> BOOLEAN]

Holds(t) == pc[t] = "cs"

Holder == IF \E t \in Threads : Holds(t) THEN CHOOSE t \in Threads : Holds(t) ELSE NoThread

Abstract == INSTANCE Mutex WITH holder <- Holder

\* Both locks hand over a mutex, as long as there are no more threads than
\* tickets, however often the halves wrap.
ImplementsMutex == Abstract!Spec

\* A thread with a ticket that is not served yet, whatever it waits with.
Waiting(t) ==
  kind = "ticket" /\ pc[t] \in {"await", "monitor", "retest", "mwait"}

\* Holders and waiters in front of it.
Ahead(t) == (val[t].lo - word.hi) % TicketMod

\* "Provides FIFO ordering for fairness" (src/locks.h:89): while a thread waits
\* with its ticket nobody enters but those who drew theirs before, and no
\* trylock slips in.
TicketOrder ==
  [][\A t, u \in Threads :
       Waiting(t) /\ t # u /\ ~Holds(u) /\ Holds(u)' => Waiting(u) /\ Ahead(u) < Ahead(t)]_vars

\* With the polling loop, a thread that has drawn a ticket is served.
TicketServed ==
  \A t \in Threads : pc[t] = "await" /\ ~mwait ~> pc[t] = "cs"

\* While somebody calls *_lock, somebody gets the lock, in the spin lock with
\* mwait too: the second test saves a thread from a wake-up it missed.  In the
\* ticket lock that test compares the word with 0 instead of the thread's turn,
\* and a thread may halt for good in front of a lock that is its own.
SomebodyEnters ==
  (\E t \in Threads : pc[t] \notin {"out", "try", "trycas"}) /\ (kind = "spin" \/ ~mwait)
    ~> \E t \in Threads : pc[t] = "cs"
=============================================================================
