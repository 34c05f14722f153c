----------------------------- MODULE SpinProofs -----------------------------
(***************************************************************************)
(* Proofs about SpinLocks, for every set of threads, every number of       *)
(* tickets that is not smaller, and builds with and without mwait.         *)
(***************************************************************************)
EXTENDS SpinLocks, FiniteSetTheorems, TLAPS

-----------------------------------------------------------------------------
(* Halves of the word *)

LEMMA Tickets ==
  /\ TicketMod \in Nat /\ TicketMod >= 2
  /\ IsFiniteSet(Threads)
  /\ Cardinality(Threads) \in Nat /\ Cardinality(Threads) <= TicketMod
  /\ Halves = 0 .. TicketMod - 1
BY SpinLocksAssumption, FS_CardinalityType DEF Halves

\* The successor of a half.
LEMMA NextHalf ==
  ASSUME NEW a \in Halves
  PROVE  /\ Next1(a) \in Halves
         /\ Next1(a) = IF a = TicketMod - 1 THEN 0 ELSE a + 1
<1>1. a \in Nat /\ a <= TicketMod - 1 /\ TicketMod \in Nat /\ TicketMod >= 2
  BY Tickets
<1>2. CASE a = TicketMod - 1
  <2>1. (a + 1) % TicketMod = 0
    BY <1>1, <1>2, Z3
  <2>. QED BY <1>1, <1>2, <2>1, Z3 DEF Next1, Halves
<1>3. CASE a < TicketMod - 1
  <2>1. (a + 1) % TicketMod = a + 1
    BY <1>1, <1>3, Z3
  <2>. QED BY <1>1, <1>3, <2>1, Z3 DEF Next1, Halves
<1>. QED BY <1>1, <1>2, <1>3

\* The half n tickets after a half.
LEMMA Wraps ==
  ASSUME NEW a \in Halves, NEW n \in 0 .. TicketMod
  PROVE  (a + n) % TicketMod = IF a + n >= TicketMod THEN a + n - TicketMod ELSE a + n
<1>1. /\ a \in Nat /\ a <= TicketMod - 1 /\ n \in Nat /\ n <= TicketMod
      /\ TicketMod \in Nat /\ TicketMod >= 2
  BY Tickets
<1>. QED BY <1>1, Z3

\* The word with one half replaced.
WithLo(lo) == [hi |-> word.hi, lo |-> lo]
WithHi(hi) == [hi |-> hi, lo |-> word.lo]

LEMMA OneHalf ==
  ASSUME word \in Words
  PROVE  /\ [word EXCEPT !.lo = Next1(@)] = WithLo(Next1(word.lo))
         /\ [word EXCEPT !.hi = Next1(@)] = WithHi(Next1(word.hi))
BY DEF Words, WithLo, WithHi

\* How far a half is behind another.
LEMMA Behind ==
  ASSUME NEW a \in Halves, NEW b \in Halves
  PROVE  /\ (a - b) % TicketMod \in Halves
         /\ (a - b) % TicketMod = IF a >= b THEN a - b ELSE a - b + TicketMod
<1>1. /\ a \in Nat /\ a <= TicketMod - 1 /\ b \in Nat /\ b <= TicketMod - 1
      /\ TicketMod \in Nat /\ TicketMod >= 2
  BY Tickets
<1>2. CASE a >= b
  BY <1>1, <1>2, Z3 DEF Halves
<1>3. CASE a < b
  <2>1. (a - b) % TicketMod = a - b + TicketMod
    BY <1>1, <1>3, Z3
  <2>. QED BY <1>1, <1>3, <2>1, Z3 DEF Halves
<1>. QED BY <1>1, <1>2, <1>3

-----------------------------------------------------------------------------
(* The inductive invariant *)

\* Who has a ticket that is not given back.
Queue == {t \in Threads : Waiting(t) \/ Holds(t)}

OneHolder == \A t, u \in Threads : Holds(t) /\ Holds(u) => t = u

\* The spin lock: the word is not 0 while somebody is inside.
HeldWord == kind = "spin" => \A t \in Threads : Holds(t) => word # Free

\* The ticket lock: the tickets between the two halves are exactly those of the
\* queue, no two the same, and the holder's is the one being served.
TicketsOut ==
  /\ word.lo = (word.hi + Cardinality(Queue)) % TicketMod
  /\ \A t \in Threads : Waiting(t) => Ahead(t) < Cardinality(Queue)
  /\ \A t, u \in Threads : Waiting(t) /\ Waiting(u) /\ t # u => Ahead(t) # Ahead(u)
  /\ \A t, u \in Threads : Waiting(t) /\ Holds(u) => Ahead(t) > 0

\* ticket_trylock only tries to take a word whose halves it saw equal.
TriesFree == \A t \in Threads : pc[t] = "trycas" => val[t].hi = val[t].lo

TicketInv == kind = "ticket" => TicketsOut /\ TriesFree

SInv == TypeOK /\ OneHolder /\ HeldWord /\ TicketInv

\* The queue has no more members than there are tickets, and one fewer if
\* somebody is not in it.
LEMMA QueueSize ==
  /\ IsFiniteSet(Queue)
  /\ Cardinality(Queue) \in 0 .. TicketMod
  /\ \A t \in Threads \ Queue : Cardinality(Queue) < TicketMod
<1>1. Queue \in SUBSET Threads
  BY DEF Queue
<1>2. IsFiniteSet(Queue) /\ Cardinality(Queue) <= Cardinality(Threads)
        /\ (Cardinality(Queue) = Cardinality(Threads) => Queue = Threads)
  BY <1>1, Tickets, FS_Subset
<1>3. Cardinality(Queue) \in Nat
  BY <1>2, FS_CardinalityType
<1>4. ASSUME NEW t \in Threads \ Queue PROVE Cardinality(Queue) < Cardinality(Threads)
  BY <1>2, <1>3, <1>4, Tickets
<1>. QED BY <1>2, <1>3, <1>4, Tickets

\* The queue with one thread more or less.
LEMMA QueueGrows ==
  ASSUME NEW t \in Threads, t \notin Queue, Queue' = Queue \cup {t}
  PROVE  Cardinality(Queue') = Cardinality(Queue) + 1
<1>1. Cardinality(Queue \cup {t}) = Cardinality(Queue) + 1
  BY QueueSize, FS_AddElement
<1>. QED BY <1>1, Zenon

LEMMA QueueShrinks ==
  ASSUME NEW t \in Threads, t \in Queue, Queue' = Queue \ {t}
  PROVE  Cardinality(Queue') = Cardinality(Queue) - 1
<1>1. Cardinality(Queue \ {t}) = Cardinality(Queue) - 1
  BY QueueSize, FS_RemoveElement
<1>. QED BY <1>1, Zenon

\* Nobody is inside, everybody outside.
LEMMA InitSInv == Init => SInv
<1>. SUFFICES ASSUME Init PROVE SInv
  OBVIOUS
<1>1. 0 \in Halves /\ 1 \in Halves
  BY Tickets
<1>2. TypeOK
  BY <1>1 DEF Init, TypeOK, Words, Free, Stages
<1>3. \A t \in Threads : ~Waiting(t) /\ ~Holds(t) /\ pc[t] # "trycas"
  BY DEF Init, Waiting, Holds
<1>4. Queue = {}
  BY <1>3 DEF Queue
<1>5. Cardinality(Queue) = 0
  BY <1>4, FS_EmptySet
<1>6. word.lo = (word.hi + Cardinality(Queue)) % TicketMod
  BY <1>5, Tickets DEF Init, Free
<1>. QED BY <1>2, <1>3, <1>6 DEF SInv, OneHolder, HeldWord, TicketInv, TicketsOut, TriesFree

\* What the invariant says of the numbers.
LEMMA Numbers ==
  ASSUME TypeOK
  PROVE  /\ word.hi \in Halves /\ word.lo \in Halves
         /\ \A t \in Threads : val[t].hi \in Halves /\ val[t].lo \in Halves
         /\ \A t \in Threads : Ahead(t) \in Halves
BY Behind DEF TypeOK, Words, Ahead

-----------------------------------------------------------------------------
(* Steps that do not change who is in line *)

\* A step that leaves the word, the holder and the tickets of waiting threads
\* as they are.
LEMMA QuietStep ==
  ASSUME SInv, NEW t \in Threads, NEW stage \in Stages, TypeOK',
         Goto(t, stage), UNCHANGED <<kind, word>>,
         \A u \in Threads \ {t} : val'[u] = val[u],
         Holds(t)' <=> Holds(t), Waiting(t)' <=> Waiting(t),
         Waiting(t) => val'[t] = val[t],
         kind = "ticket" /\ stage = "trycas" => val'[t].hi = val'[t].lo
  PROVE  SInv'
<1>1. \A u \in Threads \ {t} : pc'[u] = pc[u]
  BY DEF SInv, TypeOK, Goto
<1>2. \A u \in Threads : /\ Holds(u)' <=> Holds(u)
                         /\ Waiting(u)' <=> Waiting(u)
                         /\ Waiting(u) => Ahead(u)' = Ahead(u)
  BY <1>1 DEF Holds, Waiting, Ahead
<1>3. Queue' = Queue
  BY <1>2 DEF Queue
<1>4. OneHolder' /\ HeldWord'
  BY <1>2 DEF SInv, OneHolder, HeldWord
<1>5. ASSUME kind = "ticket" PROVE TicketsOut'
  BY <1>2, <1>3, <1>5 DEF SInv, TicketInv, TicketsOut
<1>6. ASSUME kind = "ticket" PROVE TriesFree'
  <2>1. pc'[t] = stage
    BY DEF SInv, TypeOK, Goto
  <2>. QED BY <1>1, <1>6, <2>1 DEF SInv, TicketInv, TriesFree
<1>. QED BY <1>4, <1>5, <1>6 DEF SInv, TicketInv

-----------------------------------------------------------------------------
(* The spin lock *)

\* Whoever finds the word 0 enters alone.
LEMMA SpinEnters ==
  ASSUME SInv, NEW t \in Threads, kind = "spin", word = Free, Goto(t, "cs"), Write(Taken),
         UNCHANGED <<kind, mwait, val>>
  PROVE  SInv' /\ (\A u \in Threads : ~Holds(u)) /\ Holds(t)'
<1>1. TypeOK'
  BY Tickets DEF SInv, TypeOK, Goto, Write, Taken, Words, Stages
<1>2. \A u \in Threads : ~Holds(u)
  BY DEF SInv, HeldWord
<1>3. \A u \in Threads : Holds(u)' <=> u = t
  BY <1>2 DEF SInv, TypeOK, Goto, Holds
<1>4. word' # Free
  BY DEF Write, Taken, Free
<1>. QED BY <1>1, <1>2, <1>3, <1>4 DEF SInv, OneHolder, HeldWord, TicketInv

\* spin_unlock leaves nobody inside.
LEMMA SpinLeaves ==
  ASSUME SInv, NEW t \in Threads, SpinUnlock(t)
  PROVE  SInv' /\ Holds(t) /\ \A u \in Threads : ~Holds(u)'
<1>1. TypeOK'
  BY Tickets DEF SInv, TypeOK, SpinUnlock, Goto, Write, Free, Words, Stages
<1>2. Holds(t)
  BY DEF SpinUnlock, Holds
<1>3. \A u \in Threads : ~Holds(u)'
  BY <1>2 DEF SpinUnlock, SInv, OneHolder, TypeOK, Goto, Holds
<1>. QED BY <1>1, <1>2, <1>3 DEF SInv, OneHolder, HeldWord, TicketInv, SpinUnlock

-----------------------------------------------------------------------------
(* The ticket lock *)

\* A thread that is not in line.
LEMMA NotQueued ==
  ASSUME NEW t \in Threads, pc[t] \in {"out", "test", "cas", "try", "trycas"}
  PROVE  ~Waiting(t) /\ ~Holds(t) /\ t \notin Queue
BY DEF Waiting, Holds, Queue

\* A compare-and-swap that succeeds draws the last ticket of the line.
LEMMA Draws ==
  ASSUME SInv, NEW t \in Threads, kind = "ticket", pc[t] = "cas",
         word = val[t], Write(WithLo(Next1(word.lo))), Goto(t, "await"),
         UNCHANGED <<kind, mwait, val>>
  PROVE  SInv' /\ \A u \in Threads : Holds(u)' <=> Holds(u)
<1>. DEFINE n == Cardinality(Queue)
<1>1. /\ word \in Words /\ pc \in [Threads -> Stages]
      /\ word' = WithLo(Next1(word.lo))
      /\ word.hi \in Halves /\ word.lo \in Halves
      /\ \A u \in Threads : Ahead(u) \in Halves
  BY Numbers DEF SInv, Write, TypeOK
<1>2. word'.hi = word.hi /\ word'.lo = Next1(word.lo) /\ word' \in Words
  BY <1>1, NextHalf DEF Words, WithLo
<1>3. TypeOK'
  BY <1>2 DEF SInv, TypeOK, Goto, Write, Stages
<1>4. ~Waiting(t) /\ ~Holds(t) /\ t \notin Queue
  BY NotQueued
<1>5. /\ \A u \in Threads : Holds(u)' <=> Holds(u)
      /\ \A u \in Threads : Waiting(u)' <=> Waiting(u) \/ u = t
      /\ \A u \in Threads : Ahead(u)' = Ahead(u)
  BY <1>1, <1>2, <1>4 DEF Goto, Holds, Waiting, Ahead
<1>6. Queue' = Queue \cup {t}
  BY <1>5 DEF Queue
<1>7. /\ n \in Nat /\ n < TicketMod /\ Cardinality(Queue') = n + 1
  <2>1. Cardinality(Queue') = n + 1
    BY <1>4, <1>6, QueueGrows
  <2>. QED BY <1>4, <2>1, QueueSize
<1>. HIDE DEF n
<1>8. word.lo = IF word.hi + n >= TicketMod THEN word.hi + n - TicketMod ELSE word.hi + n
  <2>1. word.lo = (word.hi + n) % TicketMod
    BY DEF SInv, TicketInv, TicketsOut, n
  <2>2. n \in 0 .. TicketMod
    BY <1>7, Tickets
  <2>. QED BY <1>1, <2>1, <2>2, Wraps
<1>9. word'.lo = (word'.hi + (n + 1)) % TicketMod
  <2>1. n + 1 \in 0 .. TicketMod
    BY <1>7, Tickets
  <2>. DEFINE hi == word.hi  lo == word.lo  next == Next1(lo)  sum == (hi + (n + 1)) % TicketMod
  <2>2. sum = IF hi + (n + 1) >= TicketMod THEN hi + (n + 1) - TicketMod ELSE hi + (n + 1)
    BY <1>1, <2>1, Wraps
  <2>3. next = IF lo = TicketMod - 1 THEN 0 ELSE lo + 1
    BY <1>1, NextHalf
  <2>4. hi \in 0 .. TicketMod - 1 /\ lo \in 0 .. TicketMod - 1 /\ n \in 0 .. TicketMod - 1
    BY <1>1, <1>7, Tickets
  <2>5. lo = IF hi + n >= TicketMod THEN hi + n - TicketMod ELSE hi + n
    BY <1>8
  <2>. HIDE DEF hi, lo, next, sum
  <2>6. next = sum
    BY <2>2, <2>3, <2>4, <2>5, Tickets
  <2>. QED BY <1>2, <2>6 DEF hi, lo, next, sum
<1>10. Ahead(t) = n
  <2>1. Ahead(t) = (word.lo - word.hi) % TicketMod
    BY DEF Ahead
  <2>2. (word.lo - word.hi) % TicketMod =
          IF word.lo >= word.hi THEN word.lo - word.hi ELSE word.lo - word.hi + TicketMod
    BY <1>1, Behind
  <2>3. word.hi \in 0 .. TicketMod - 1 /\ word.lo \in 0 .. TicketMod - 1
    BY <1>1, Tickets
  <2>. QED BY <1>7, <1>8, <2>1, <2>2, <2>3, Tickets
<1>11. \A u \in Threads : Waiting(u) => Ahead(u) < n
  BY DEF SInv, TicketInv, TicketsOut, n
<1>12. \A u \in Threads : Holds(u) => n > 0
  <2>1. ASSUME NEW u \in Threads, Holds(u) PROVE n # 0
    BY <2>1, QueueSize, FS_EmptySet DEF Queue, n
  <2>. QED BY <2>1, <1>7
<1>13. \A u \in Threads : Ahead(u) \in Nat
  BY <1>1, Tickets
<1>14. /\ \A u \in Threads : Waiting(u)' => Ahead(u)' < n + 1
       /\ \A u, v \in Threads : Waiting(u)' /\ Waiting(v)' /\ u # v => Ahead(u)' # Ahead(v)'
       /\ \A u, v \in Threads : Waiting(u)' /\ Holds(v)' => Ahead(u)' > 0
  <2>1. \A u, v \in Threads : Waiting(u) /\ Waiting(v) /\ u # v => Ahead(u) # Ahead(v)
    BY DEF SInv, TicketInv, TicketsOut
  <2>2. \A u, v \in Threads : Waiting(u) /\ Holds(v) => Ahead(u) > 0
    BY DEF SInv, TicketInv, TicketsOut
  <2>3. \A u \in Threads : Waiting(u)' => Ahead(u)' < n + 1
    BY <1>5, <1>7, <1>10, <1>11, <1>13
  <2>4. ASSUME NEW u \in Threads, NEW v \in Threads, Waiting(u)', Waiting(v)', u # v
        PROVE  Ahead(u)' # Ahead(v)'
    BY <1>5, <1>7, <1>10, <1>11, <1>13, <2>1, <2>4
  <2>5. ASSUME NEW u \in Threads, NEW v \in Threads, Waiting(u)', Holds(v)'
        PROVE  Ahead(u)' > 0
    BY <1>5, <1>10, <1>12, <2>2, <2>5
  <2>. QED BY <2>3, <2>4, <2>5
<1>15. TicketsOut'
  BY <1>7, <1>9, <1>14 DEF TicketsOut
<1>16. TriesFree'
  BY <1>1 DEF SInv, TicketInv, TriesFree, Goto
<1>. QED BY <1>3, <1>5, <1>15, <1>16 DEF SInv, OneHolder, HeldWord, TicketInv

\* The thread whose ticket is served finds nobody inside, and nobody else with
\* the same ticket.
LEMMA Served ==
  ASSUME SInv, NEW t \in Threads, kind = "ticket", pc[t] = "await",
         word.hi = val[t].lo, Goto(t, "cs"), Forget(t), UNCHANGED <<kind, mwait, word, armed>>
  PROVE  /\ SInv' /\ Holds(t)' /\ Ahead(t) = 0
         /\ \A u \in Threads : ~Holds(u)
         /\ \A u \in Threads : Holds(u)' => u = t
<1>1. Waiting(t) /\ t \in Queue
  BY DEF Waiting, Queue
<1>2. Ahead(t) = 0
  <2>1. word.hi \in Halves
    BY Numbers DEF SInv
  <2>2. (word.hi - word.hi) % TicketMod = 0
    BY <2>1, Behind, Tickets
  <2>. QED BY <2>2 DEF Ahead
<1>3. \A u \in Threads : ~Holds(u)
  BY <1>1, <1>2 DEF SInv, TicketInv, TicketsOut
<1>4. TypeOK'
  BY Tickets DEF SInv, TypeOK, Goto, Forget, Free, Words, Stages
<1>5. /\ \A u \in Threads : Holds(u)' <=> u = t
      /\ \A u \in Threads : Waiting(u)' <=> Waiting(u) /\ u # t
      /\ \A u \in Threads \ {t} : Ahead(u)' = Ahead(u) /\ pc'[u] = pc[u] /\ val'[u] = val[u]
  BY <1>3 DEF SInv, TypeOK, Goto, Forget, Holds, Waiting, Ahead
<1>6. Queue' = Queue
  BY <1>1, <1>3, <1>5 DEF Queue
<1>7. \A u \in Threads \ {t} : Waiting(u) => Ahead(u) > 0
  BY <1>1, <1>2, Numbers, Tickets DEF SInv, TicketInv, TicketsOut
<1>8. TicketsOut'
  BY <1>5, <1>6, <1>7 DEF SInv, TicketInv, TicketsOut
<1>9. TriesFree'
  BY <1>5 DEF SInv, TypeOK, TicketInv, TriesFree, Goto
<1>. QED BY <1>2, <1>3, <1>4, <1>5, <1>8, <1>9 DEF SInv, OneHolder, HeldWord, TicketInv

\* Equal halves, seen by the compare-and-swap, mean that nobody is in line.
LEMMA TryEnters ==
  ASSUME SInv, NEW t \in Threads, kind = "ticket", pc[t] = "trycas",
         word = val[t], Goto(t, "cs"), Write(WithLo(Next1(word.lo))), Forget(t),
         UNCHANGED <<kind, mwait>>
  PROVE  /\ SInv' /\ Holds(t)'
         /\ \A u \in Threads : ~Holds(u) /\ ~Waiting(u)
         /\ \A u \in Threads : Holds(u)' => u = t
<1>. DEFINE n == Cardinality(Queue)
<1>1. /\ word \in Words /\ pc \in [Threads -> Stages]
      /\ word' = WithLo(Next1(word.lo))
      /\ word.hi \in Halves /\ word.lo \in Halves
      /\ word.lo = word.hi
  <2>1. word.lo = word.hi
    BY DEF SInv, TicketInv, TriesFree
  <2>2. word \in Words /\ pc \in [Threads -> Stages] /\ word.hi \in Halves /\ word.lo \in Halves
    BY Numbers DEF SInv, TypeOK
  <2>3. word' = WithLo(Next1(word.lo))
    BY DEF Write
  <2>. QED BY <2>1, <2>2, <2>3
<1>2. word'.hi = word.hi /\ word'.lo = Next1(word.lo) /\ word' \in Words
  BY <1>1, NextHalf DEF Words, WithLo
<1>3. TypeOK'
  BY <1>2, Tickets DEF SInv, TypeOK, Goto, Write, Forget, Stages, Free, Words
<1>4. ~Waiting(t) /\ ~Holds(t) /\ t \notin Queue
  BY NotQueued
<1>5. n \in Nat /\ n < TicketMod
  BY <1>4, QueueSize
<1>. HIDE DEF n
<1>6. n = 0
  <2>1. word.lo = (word.hi + n) % TicketMod
    BY DEF SInv, TicketInv, TicketsOut, n
  <2>2. n \in 0 .. TicketMod /\ word.hi \in 0 .. TicketMod - 1
    BY <1>1, <1>5, Tickets
  <2>3. word.lo = IF word.hi + n >= TicketMod THEN word.hi + n - TicketMod ELSE word.hi + n
    BY <1>1, <2>1, <2>2, Wraps
  <2>. QED BY <1>1, <1>5, <2>2, <2>3, Tickets
<1>7. Queue = {}
  BY <1>6, QueueSize, FS_EmptySet DEF n
<1>8. \A u \in Threads : ~Holds(u) /\ ~Waiting(u)
  BY <1>7 DEF Queue
<1>9. \A u \in Threads : (Holds(u)' <=> u = t) /\ ~Waiting(u)'
  BY <1>1, <1>8 DEF Goto, Holds, Waiting
<1>10. Queue' = {t}
  BY <1>9 DEF Queue
<1>11. Cardinality(Queue') = 1
  BY <1>10, FS_Singleton
<1>12. word'.lo = (word'.hi + 1) % TicketMod
  BY <1>1, <1>2 DEF Next1
<1>13. TicketsOut'
  BY <1>9, <1>11, <1>12 DEF TicketsOut
<1>14. TriesFree'
  BY <1>1 DEF SInv, TypeOK, TicketInv, TriesFree, Goto, Forget
<1>. QED BY <1>3, <1>8, <1>9, <1>13, <1>14 DEF SInv, OneHolder, HeldWord, TicketInv

\* ticket_unlock brings everybody one step forward.
LEMMA TicketLeaves ==
  ASSUME SInv, NEW t \in Threads, TicketUnlock(t)
  PROVE  SInv' /\ Holds(t) /\ \A u \in Threads : ~Holds(u)'
<1>. DEFINE n == Cardinality(Queue)
<1>1. /\ word \in Words /\ pc \in [Threads -> Stages]
      /\ word' = WithHi(Next1(word.hi))
      /\ word.hi \in Halves /\ word.lo \in Halves
      /\ \A u \in Threads : val[u].lo \in Halves /\ Ahead(u) \in Halves
      /\ kind = "ticket" /\ pc' = [pc EXCEPT ![t] = "out"] /\ val' = val
  BY Numbers, OneHalf DEF SInv, Write, TypeOK, TicketUnlock, Goto
<1>2. word'.lo = word.lo /\ word'.hi = Next1(word.hi) /\ word' \in Words
  BY <1>1, NextHalf DEF Words, WithHi
<1>3. TypeOK'
  BY <1>2 DEF SInv, TypeOK, TicketUnlock, Goto, Write, Stages
<1>4. Holds(t) /\ t \in Queue
  BY DEF TicketUnlock, Holds, Queue
<1>5. /\ \A u \in Threads : ~Holds(u)'
      /\ \A u \in Threads : Waiting(u)' <=> Waiting(u)
  BY <1>1, <1>4 DEF SInv, OneHolder, Holds, Waiting, TicketUnlock
<1>6. \A u \in Threads : Holds(u) => u = t
  BY <1>4 DEF SInv, OneHolder
<1>7. ~Waiting(t)
  BY DEF TicketUnlock, Waiting
<1>8. Queue' = Queue \ {t}
  BY <1>5, <1>6, <1>7 DEF Queue
<1>9. /\ n \in Nat /\ n <= TicketMod /\ Cardinality(Queue') = n - 1
  <2>1. Cardinality(Queue') = n - 1
    BY <1>4, <1>8, QueueShrinks
  <2>. QED BY <2>1, QueueSize, Tickets
<1>10. n >= 1
  BY <1>4, <1>9, QueueSize, FS_EmptySet
<1>. HIDE DEF n
<1>. DEFINE hi == word.hi  next == Next1(hi)
<1>11. /\ hi \in 0 .. TicketMod - 1 /\ word.lo \in 0 .. TicketMod - 1
       /\ next \in 0 .. TicketMod - 1
       /\ next = IF hi = TicketMod - 1 THEN 0 ELSE hi + 1
       /\ TicketMod \in Nat
  BY <1>1, NextHalf, Tickets
<1>. HIDE DEF next, hi
<1>12. word'.lo = (word'.hi + (n - 1)) % TicketMod
  <2>1. word.lo = (hi + n) % TicketMod
    BY <1>1 DEF SInv, TicketInv, TicketsOut, n, hi
  <2>2. n \in 0 .. TicketMod /\ n - 1 \in 0 .. TicketMod /\ hi \in Halves /\ next \in Halves
    BY <1>9, <1>10, <1>11, Tickets
  <2>3. word.lo = IF hi + n >= TicketMod THEN hi + n - TicketMod ELSE hi + n
    BY <2>1, <2>2, Wraps
  <2>4. (next + (n - 1)) % TicketMod =
          IF next + (n - 1) >= TicketMod THEN next + (n - 1) - TicketMod ELSE next + (n - 1)
    BY <2>2, Wraps
  <2>5. word.lo = (next + (n - 1)) % TicketMod
    BY <1>9, <1>10, <1>11, <2>3, <2>4
  <2>. QED BY <1>2, <2>5 DEF next, hi
<1>13. ASSUME NEW u \in Threads, Waiting(u)
       PROVE  Ahead(u) \in Nat /\ Ahead(u) > 0 /\ Ahead(u) < n /\ Ahead(u)' = Ahead(u) - 1
  <2>. DEFINE mine == val[u].lo
  <2>1. Ahead(u) > 0 /\ Ahead(u) < n /\ mine \in 0 .. TicketMod - 1
    BY <1>1, <1>4, <1>13, Tickets DEF SInv, TicketInv, TicketsOut, n
  <2>2. mine \in Halves /\ hi \in Halves /\ next \in Halves
    BY <1>11, <2>1, Tickets
  <2>. HIDE DEF mine
  <2>3. (mine - hi) % TicketMod = IF mine >= hi THEN mine - hi ELSE mine - hi + TicketMod
    BY <2>2, Behind
  <2>4. (mine - next) % TicketMod = IF mine >= next THEN mine - next ELSE mine - next + TicketMod
    BY <2>2, Behind
  <2>5. Ahead(u) = (mine - hi) % TicketMod /\ Ahead(u)' = (mine - next) % TicketMod
    BY <1>1, <1>2 DEF Ahead, mine, hi, next
  <2>. QED BY <1>11, <2>1, <2>3, <2>4, <2>5 DEF mine
<1>14. /\ \A u \in Threads : Waiting(u)' => Ahead(u)' < n - 1
       /\ \A u, v \in Threads : Waiting(u)' /\ Waiting(v)' /\ u # v => Ahead(u)' # Ahead(v)'
  <2>1. \A u, v \in Threads : Waiting(u) /\ Waiting(v) /\ u # v => Ahead(u) # Ahead(v)
    BY <1>1 DEF SInv, TicketInv, TicketsOut
  <2>. QED BY <1>5, <1>9, <1>13, <2>1
<1>15. TicketsOut'
  BY <1>5, <1>9, <1>12, <1>14 DEF TicketsOut
<1>16. TriesFree'
  BY <1>1 DEF SInv, TicketInv, TriesFree
<1>. QED BY <1>1, <1>3, <1>4, <1>5, <1>15, <1>16 DEF SInv, OneHolder, HeldWord, TicketInv

-----------------------------------------------------------------------------
(* Every step *)

\* Only these change who holds the lock.
Enters(t) ==
  \/ SpinCas(t) /\ word = Free
  \/ SpinTryCas(t) /\ word = Free
  \/ TicketAwait(t) /\ word.hi = val[t].lo
  \/ TicketTryCas(t) /\ word = val[t]

Leaves(t) == SpinUnlock(t) \/ TicketUnlock(t)

\* A thread that enters finds nobody inside; in the ticket lock it is the first
\* of the line, or there is no line.
LEMMA EntersStep ==
  ASSUME SInv, NEW t \in Threads, Enters(t)
  PROVE  /\ SInv' /\ Holds(t)'
         /\ \A u \in Threads : ~Holds(u)
         /\ \A u \in Threads : Holds(u)' => u = t
         /\ \A u \in Threads \ {t} : Waiting(u) => Waiting(t) /\ Ahead(t) < Ahead(u)
<1>1. CASE (SpinCas(t) \/ SpinTryCas(t)) /\ word = Free
  <2>1. /\ kind = "spin" /\ word = Free /\ Goto(t, "cs") /\ Write(Taken)
        /\ UNCHANGED <<kind, mwait, val>>
    BY <1>1 DEF SpinCas, SpinTryCas
  <2>2. \A u \in Threads : ~Waiting(u)
    BY <2>1 DEF Waiting
  <2>3. SInv' /\ (\A u \in Threads : ~Holds(u)) /\ Holds(t)'
    BY <2>1, SpinEnters
  <2>. QED BY <2>2, <2>3 DEF SInv, OneHolder
<1>2. CASE TicketAwait(t) /\ word.hi = val[t].lo
  <2>1. /\ kind = "ticket" /\ pc[t] = "await" /\ word.hi = val[t].lo
        /\ Goto(t, "cs") /\ Forget(t) /\ UNCHANGED <<kind, mwait, word, armed>>
    BY <1>2 DEF TicketAwait
  <2>2. /\ SInv' /\ Holds(t)' /\ Ahead(t) = 0
        /\ \A u \in Threads : ~Holds(u)
        /\ \A u \in Threads : Holds(u)' => u = t
    BY <2>1, Served
  <2>3. Waiting(t)
    BY <2>1 DEF Waiting
  <2>4. \A u \in Threads \ {t} : Waiting(u) => Ahead(u) # Ahead(t) /\ Ahead(u) \in Nat
    BY <2>1, <2>3, Numbers, Tickets DEF SInv, TicketInv, TicketsOut
  <2>. QED BY <2>2, <2>3, <2>4
<1>3. CASE TicketTryCas(t) /\ word = val[t]
  <2>1. /\ kind = "ticket" /\ pc[t] = "trycas" /\ word = val[t] /\ Goto(t, "cs")
        /\ Write(WithLo(Next1(word.lo))) /\ Forget(t) /\ UNCHANGED <<kind, mwait>>
    BY <1>3, OneHalf DEF TicketTryCas, SInv, TypeOK
  <2>. QED BY <2>1, TryEnters
<1>. QED BY <1>1, <1>2, <1>3 DEF Enters

LEMMA LeavesStep ==
  ASSUME SInv, NEW t \in Threads, Leaves(t)
  PROVE  SInv' /\ Holds(t) /\ \A u \in Threads : ~Holds(u)'
BY SpinLeaves, TicketLeaves DEF Leaves

\* Steps that only look, or wait.
Looks(t) ==
  \/ Call(t) \/ SpinTest(t) \/ SpinTry(t) \/ TicketRead(t) \/ TicketTry(t)
  \/ (SpinCas(t) \/ SpinTryCas(t)) /\ word # Free
  \/ (TicketCas(t) \/ TicketTryCas(t)) /\ word # val[t]
  \/ TicketAwait(t) /\ word.hi # val[t].lo
  \/ Monitor(t) \/ Retest(t) \/ WriteWakes(t) \/ Interrupt(t)

InLine == {"await", "monitor", "retest", "mwait"}

\* A thread goes from one stage to another, in line or not, and does not enter.
Moves(t, stage) ==
  /\ Goto(t, stage)
  /\ stage \in Stages \ {"cs"} /\ pc[t] # "cs"
  /\ kind = "ticket" => (pc[t] \in InLine <=> stage \in InLine)
  /\ kind = "ticket" /\ stage = "trycas" => val'[t].hi = val'[t].lo

LEMMA LooksMoves ==
  ASSUME SInv, NEW t \in Threads, Looks(t)
  PROVE  \E stage \in Stages : Moves(t, stage)
<1>. USE DEF Stages, InLine, Goto
<1>1. CASE Call(t)
  <2>1. Moves(t, "test") \/ Moves(t, "try")
    BY <1>1 DEF Call, Moves
  <2>. QED BY <2>1
<1>2. CASE SpinTest(t) \/ SpinTry(t) \/ ((SpinCas(t) \/ SpinTryCas(t)) /\ word # Free)
  <2>1. Moves(t, "cas") \/ Moves(t, "monitor") \/ Moves(t, "test")
          \/ Moves(t, "trycas") \/ Moves(t, "out")
    BY <1>2 DEF SpinTest, SpinTry, SpinCas, SpinTryCas, Busy, Moves
  <2>. QED BY <2>1
<1>3. CASE TicketRead(t)
  <2>1. Moves(t, "cas")
    BY <1>3 DEF TicketRead, Moves
  <2>. QED BY <2>1
<1>4. CASE TicketTry(t)
  <2>1. CASE word.hi = word.lo
    <3>1. val'[t] = word
      BY <1>4, <2>1 DEF TicketTry, SInv, TypeOK
    <3>2. Moves(t, "trycas")
      BY <1>4, <2>1, <3>1 DEF TicketTry, Moves
    <3>. QED BY <3>2
  <2>2. CASE word.hi # word.lo
    <3>1. Moves(t, "out")
      BY <1>4, <2>2 DEF TicketTry, Moves
    <3>. QED BY <3>1
  <2>. QED BY <2>1, <2>2
<1>5. CASE (TicketCas(t) \/ TicketTryCas(t)) /\ word # val[t]
  <2>1. Moves(t, "test") \/ Moves(t, "out")
    BY <1>5 DEF TicketCas, TicketTryCas, Moves
  <2>. QED BY <2>1
<1>6. CASE TicketAwait(t) /\ word.hi # val[t].lo
  <2>1. Moves(t, "monitor") \/ Moves(t, "await")
    BY <1>6 DEF TicketAwait, Busy, Moves
  <2>. QED BY <2>1
<1>7. CASE Monitor(t) \/ Retest(t) \/ WriteWakes(t) \/ Interrupt(t)
  <2>1. kind \in {"spin", "ticket"}
    BY DEF SInv, TypeOK
  <2>2. Moves(t, "retest") \/ Moves(t, "mwait") \/ Moves(t, "test") \/ Moves(t, "await")
    BY <1>7, <2>1 DEF Monitor, Retest, WriteWakes, Interrupt, Loop, Moves
  <2>. QED BY <2>2
<1>. QED BY <1>1, <1>2, <1>3, <1>4, <1>5, <1>6, <1>7 DEF Looks

\* Such a step touches neither the word nor a ticket in use.
LEMMA LooksValues ==
  ASSUME SInv, NEW t \in Threads, Looks(t)
  PROVE  /\ UNCHANGED <<kind, mwait, word>>
         /\ val' \in [Threads -> Words] /\ armed' \in [Threads -> BOOLEAN]
         /\ \A u \in Threads : Waiting(u) => val'[u] = val[u]
         /\ \A u \in Threads \ {t} : val'[u] = val[u]
<1>1. UNCHANGED <<kind, mwait, word>>
  BY DEF Looks, Call, SpinTest, SpinTry, TicketRead, TicketTry, SpinCas, SpinTryCas,
     TicketCas, TicketTryCas, TicketAwait, Monitor, Retest, WriteWakes, Interrupt
<1>2. \/ val' = val
      \/ val' = [val EXCEPT ![t] = word] /\ pc[t] \in {"test", "try"}
      \/ val' = [val EXCEPT ![t] = Free] /\ pc[t] = "trycas"
  BY DEF Looks, Call, SpinTest, SpinTry, TicketRead, TicketTry, SpinCas, SpinTryCas,
     TicketCas, TicketTryCas, TicketAwait, Monitor, Retest, WriteWakes, Interrupt, Forget
<1>3. \/ armed' = armed
      \/ armed' = [armed EXCEPT ![t] = TRUE]
      \/ armed' = [armed EXCEPT ![t] = FALSE]
  BY DEF Looks, Call, SpinTest, SpinTry, TicketRead, TicketTry, SpinCas, SpinTryCas,
     TicketCas, TicketTryCas, TicketAwait, Monitor, Retest, WriteWakes, Interrupt
<1>4. Free \in Words /\ word \in Words /\ val \in [Threads -> Words]
        /\ armed \in [Threads -> BOOLEAN]
  BY Tickets DEF SInv, TypeOK, Free, Words
<1>5. val' \in [Threads -> Words] /\ armed' \in [Threads -> BOOLEAN]
  BY <1>2, <1>3, <1>4
<1>6. \A u \in Threads \ {t} : val'[u] = val[u]
  BY <1>2, <1>4
<1>7. Waiting(t) => val'[t] = val[t]
  BY <1>2 DEF Waiting
<1>. QED BY <1>1, <1>5, <1>6, <1>7

LEMMA LooksStep ==
  ASSUME SInv, NEW t \in Threads, Looks(t)
  PROVE  SInv' /\ \A u \in Threads : Holds(u)' <=> Holds(u)
<1>1. PICK stage \in Stages : Moves(t, stage)
  BY LooksMoves
<1>2. pc' = [pc EXCEPT ![t] = stage] /\ pc \in [Threads -> Stages] /\ pc' \in [Threads -> Stages]
  BY <1>1 DEF Moves, Goto, SInv, TypeOK
<1>3. TypeOK'
  BY <1>2, LooksValues DEF SInv, TypeOK
<1>4. \A u \in Threads : Holds(u)' <=> Holds(u)
  BY <1>1, <1>2 DEF Moves, Holds
<1>5. Waiting(t)' <=> Waiting(t)
  BY <1>1, <1>2, LooksValues DEF Moves, Waiting, InLine
<1>6. SInv'
  BY <1>1, <1>3, <1>4, <1>5, LooksValues, QuietStep DEF Moves
<1>. QED BY <1>4, <1>6

\* A ticket is drawn without anybody's turn changing.
LEMMA DrawsStep ==
  ASSUME SInv, NEW t \in Threads, TicketCas(t), word = val[t]
  PROVE  SInv' /\ \A u \in Threads : Holds(u)' <=> Holds(u)
<1>1. /\ kind = "ticket" /\ pc[t] = "cas" /\ Write(WithLo(Next1(word.lo)))
      /\ Goto(t, "await") /\ UNCHANGED <<kind, mwait, val>>
  BY OneHalf DEF TicketCas, SInv, TypeOK
<1>. QED BY <1>1, Draws

\* What the lock does is to enter, to leave, or neither.
LEMMA StepCases ==
  ASSUME NEW t \in Threads, Call(t) \/ Proceed(t) \/ Interrupt(t)
  PROVE  Enters(t) \/ Leaves(t) \/ Looks(t) \/ (TicketCas(t) /\ word = val[t])
BY DEF Proceed, Enters, Leaves, Looks

\* Standing still.
LEMMA StandsStill ==
  ASSUME SInv, UNCHANGED vars
  PROVE  SInv' /\ \A u \in Threads : Holds(u)' <=> Holds(u)
<1>1. /\ \A u \in Threads : /\ Holds(u)' <=> Holds(u)
                            /\ Waiting(u)' <=> Waiting(u)
                            /\ Ahead(u)' = Ahead(u)
  BY DEF vars, Holds, Waiting, Ahead
<1>2. Queue' = Queue
  BY <1>1 DEF Queue
<1>3. TypeOK' /\ OneHolder' /\ HeldWord'
  BY <1>1 DEF SInv, TypeOK, OneHolder, HeldWord, vars
<1>4. TicketInv'
  BY <1>1, <1>2 DEF SInv, TicketInv, TicketsOut, TriesFree, vars
<1>. QED BY <1>1, <1>3, <1>4 DEF SInv

\* Every step keeps the invariant.
LEMMA NextSInv == SInv /\ [Next]_vars => SInv'
<1>. SUFFICES ASSUME SInv, [Next]_vars PROVE SInv'
  OBVIOUS
<1>1. ASSUME NEW t \in Threads, Call(t) \/ Proceed(t) \/ Interrupt(t) PROVE SInv'
  BY <1>1, StepCases, EntersStep, LeavesStep, LooksStep, DrawsStep
<1>2. CASE UNCHANGED vars
  BY <1>2, StandsStill
<1>. QED BY <1>1, <1>2 DEF Next

LEMMA Invariance == Spec => []SInv
BY InitSInv, NextSInv, PTL DEF Spec

\* Word, tickets and stages keep their types.
THEOREM TypeCorrect == Spec => []TypeOK
<1>1. SInv => TypeOK
  BY DEF SInv
<1>. QED BY <1>1, Invariance, PTL

-----------------------------------------------------------------------------
(* SpinLocks implements Mutex *)

\* With at most one holder, Holder names it.
LEMMA HolderIs ==
  ASSUME OneHolder
  PROVE  /\ \A t \in Threads : Holds(t) => Holder = t
         /\ (\A t \in Threads : ~Holds(t)) => Holder = NoThread
BY DEF OneHolder, Holder

\* The same in the next state.
LEMMA HolderIsNext ==
  ASSUME OneHolder'
  PROVE  /\ \A t \in Threads : Holds(t)' => Holder' = t
         /\ (\A t \in Threads : ~Holds(t)') => Holder' = NoThread
BY DEF OneHolder, Holder

\* If the same threads hold the lock before and after, its holder is the same.
LEMMA HolderSame ==
  ASSUME SInv, SInv', \A u \in Threads : Holds(u)' <=> Holds(u)
  PROVE  Holder' = Holder
<1>1. CASE \E u \in Threads : Holds(u)
  BY <1>1, HolderIs, HolderIsNext DEF SInv
<1>2. CASE \A u \in Threads : ~Holds(u)
  BY <1>2, HolderIs, HolderIsNext DEF SInv
<1>. QED BY <1>1, <1>2

\* Every step is an acquisition, a release or invisible to the callers.
LEMMA StepImplements ==
  ASSUME SInv, SInv', [Next]_vars
  PROVE  [Abstract!Next]_Holder
<1>1. CASE UNCHANGED vars
  BY <1>1, StandsStill, HolderSame
<1>2. ASSUME NEW t \in Threads, Call(t) \/ Proceed(t) \/ Interrupt(t)
      PROVE  [Abstract!Next]_Holder
  <2>1. CASE Enters(t)
    <3>1. Holder = NoThread /\ Holder' = t
      BY <2>1, EntersStep, HolderIs, HolderIsNext DEF SInv
    <3>. QED BY <3>1 DEF Abstract!Next, Abstract!Acquire
  <2>2. CASE Leaves(t)
    <3>1. Holder = t /\ Holder' = NoThread
      BY <2>2, LeavesStep, HolderIs, HolderIsNext DEF SInv
    <3>. QED BY <3>1 DEF Abstract!Next, Abstract!Release
  <2>3. CASE Looks(t)
    BY <2>3, LooksStep, HolderSame
  <2>4. CASE TicketCas(t) /\ word = val[t]
    BY <2>4, DrawsStep, HolderSame
  <2>. QED BY <1>2, StepCases, <2>1, <2>2, <2>3, <2>4
<1>. QED BY <1>1, <1>2 DEF Next

\* Both locks are mutexes, in every build, however often the tickets wrap.
THEOREM Refinement == Spec => ImplementsMutex
<1>1. Init => Abstract!Init
  <2>. SUFFICES ASSUME Init PROVE Abstract!Init
    OBVIOUS
  <2>1. \A t \in Threads : ~Holds(t)
    BY DEF Init, Holds
  <2>. QED BY <2>1, InitSInv, HolderIs DEF SInv, Abstract!Init
<1>2. SInv /\ SInv' /\ [Next]_vars => [Abstract!Next]_Holder
  BY StepImplements
<1>. QED BY <1>1, <1>2, Invariance, PTL DEF Spec, ImplementsMutex, Abstract!Spec

-----------------------------------------------------------------------------
(* The order of the tickets *)

\* Whoever enters, a trylock included, was in front of everybody who waits.
THEOREM TicketOrderHolds == Spec => TicketOrder
<1>. DEFINE InOrder ==
       \A t, u \in Threads :
         Waiting(t) /\ t # u /\ ~Holds(u) /\ Holds(u)' => Waiting(u) /\ Ahead(u) < Ahead(t)
<1>1. ASSUME SInv, [Next]_vars PROVE [InOrder]_vars
  <2>1. CASE UNCHANGED vars
    BY <2>1
  <2>2. ASSUME NEW v \in Threads, Call(v) \/ Proceed(v) \/ Interrupt(v)
        PROVE  InOrder
    <3>1. CASE Enters(v)
      BY <1>1, <3>1, EntersStep
    <3>2. CASE Leaves(v)
      BY <1>1, <3>2, LeavesStep
    <3>3. CASE Looks(v)
      BY <1>1, <3>3, LooksStep
    <3>4. CASE TicketCas(v) /\ word = val[v]
      BY <1>1, <3>4, DrawsStep
    <3>. QED BY <2>2, StepCases, <3>1, <3>2, <3>3, <3>4
  <2>. QED BY <1>1, <2>1, <2>2 DEF Next
<1>2. SInv /\ [Next]_vars => [InOrder]_vars
  BY <1>1
<1>. QED BY <1>2, Invariance, PTL DEF Spec, TicketOrder
=============================================================================
