---------------------------- MODULE PhasesProofs ----------------------------
(***************************************************************************)
(* Proofs about Phases, for every number of processes, every width of the  *)
(* cycle counter and every length of a phase: the cycle counters drive the *)
(* barrier of Weave, and no phase is shorter than PHASE_LENGTH             *)
(* instructions unless a counter has been decremented at 0.                *)
(***************************************************************************)
EXTENDS Phases, WeaveProofs

\* What the assumption says, for the arithmetic below.
LEMMA Sizes ==
  /\ CycleMod \in Nat /\ CycleMod >= 1
  /\ PHASE_LENGTH \in Nat /\ PHASE_LENGTH >= 1
  /\ MaxOps \in Nat
  /\ PhaseBound = (CycleMod - 1) \div PHASE_LENGTH
BY PhasesAssumption

\* The quotient of a counter by PHASE_LENGTH exceeds n exactly if the counter
\* has reached n + 1 phases.
LEMMA QuotientAbove ==
  ASSUME NEW c \in Nat, NEW n \in Nat
  PROVE  /\ c \div PHASE_LENGTH \in Nat
         /\ c \div PHASE_LENGTH > n <=> c >= (n + 1) * PHASE_LENGTH
<1>. DEFINE L == PHASE_LENGTH  q == c \div L
<1>1. L \in Nat /\ L >= 1
  BY Sizes
<1>2. q \in Nat /\ c >= q * L /\ c < (q + 1) * L
  BY <1>1, Z3
<1>3. ASSUME q > n PROVE c >= (n + 1) * L
  BY <1>1, <1>2, <1>3, Z3
<1>4. ASSUME ~(q > n) PROVE c < (n + 1) * L
  BY <1>1, <1>2, <1>4, Z3
<1>. QED BY <1>2, <1>3, <1>4, <1>1

\* No counter has a quotient beyond PhaseBound.
LEMMA QuotientBound ==
  ASSUME NEW c \in 0 .. CycleMod - 1, NEW n \in Nat, c \div PHASE_LENGTH > n
  PROVE  n < PhaseBound
<1>1. CycleMod - 1 \in Nat /\ c \in Nat /\ c <= CycleMod - 1
  BY Sizes
<1>2. c >= (n + 1) * PHASE_LENGTH
  BY <1>1, QuotientAbove
<1>3. (n + 1) * PHASE_LENGTH \in Nat
  BY Sizes
<1>4. CycleMod - 1 >= (n + 1) * PHASE_LENGTH
  BY <1>1, <1>2, <1>3
<1>5. (CycleMod - 1) \div PHASE_LENGTH > n
  BY <1>1, <1>4, QuotientAbove
<1>. QED BY <1>5, Sizes

\* Up and down, modulo CycleMod.
LEMMA CounterMoves ==
  ASSUME NEW c \in 0 .. CycleMod - 1
  PROVE  /\ (c + 1) % CycleMod \in 0 .. CycleMod - 1
         /\ (c - 1) % CycleMod \in 0 .. CycleMod - 1
         /\ (c + 1) % CycleMod = c + 1 \/ (c + 1) % CycleMod = 0
         /\ c > 0 => (c - 1) % CycleMod = c - 1
<1>1. CycleMod \in Nat /\ CycleMod >= 1
  BY Sizes
<1>2. CASE c = CycleMod - 1
  BY <1>1, <1>2, Z3
<1>3. CASE c < CycleMod - 1
  BY <1>1, <1>3, Z3
<1>. QED BY <1>1, <1>2, <1>3

\* The program's part of the types.
ProgramOK ==
  /\ cycles \in [Procs -> 0 .. CycleMod - 1]
  /\ ops \in [Procs -> Operands]
  /\ exited \in [Procs -> BOOLEAN]
  /\ len \in [Procs -> Lost .. PHASE_LENGTH]

\* Until the counter is decremented at 0 it is still in the phase, and not
\* farther in it than the instructions since the phase began have brought it.
InPhase(c, n, k) ==
  k # Lost => c < (n + 1) * PHASE_LENGTH /\ c <= n * PHASE_LENGTH + k

PInv == IInv /\ ProgramOK /\ \A p \in Procs : InPhase(cycles[p], phase[p], len[p])

\* The counter starts at 0 in phase 0.
LEMMA InitPInv == PhasesInit => PInv
<1>. SUFFICES ASSUME PhasesInit PROVE PInv
  OBVIOUS
<1>1. IInv
  BY InitIInv DEF PhasesInit
<1>2. ProgramOK
  BY Sizes DEF PhasesInit, ProgramOK, Operands, Lost
<1>3. ASSUME NEW p \in Procs PROVE InPhase(cycles[p], phase[p], len[p])
  BY Sizes DEF PhasesInit, Init, InPhase
<1>. QED BY <1>1, <1>2, <1>3 DEF PInv

\* An instruction that ends a phase starts the next one exactly at its
\* beginning.
LEMMA EndInPhase ==
  ASSUME NEW c \in 0 .. CycleMod - 1, NEW n \in Nat, NEW k \in Lost .. PHASE_LENGTH,
         InPhase(c, n, k), ((c + 1) % CycleMod) \div PHASE_LENGTH > n
  PROVE  /\ k # Lost => k + 1 >= PHASE_LENGTH
         /\ InPhase((c + 1) % CycleMod, n + 1, IF k = Lost THEN Lost ELSE 0)
<1>. DEFINE L == PHASE_LENGTH  d == (c + 1) % CycleMod  a == n * L
<1>1. /\ L \in Nat /\ L >= 1 /\ CycleMod \in Nat /\ c \in Nat
      /\ d \in Nat /\ (d = c + 1 \/ d = 0)
      /\ k \in Int
  BY Sizes, CounterMoves DEF Lost
<1>2. a \in Nat /\ (n + 1) * L = a + L /\ (n + 1 + 1) * L = a + L + L
  <2>. HIDE DEF L
  <2>. QED BY <1>1, Z3
<1>3. d >= a + L
  <2>1. d >= (n + 1) * L
    BY <1>1, QuotientAbove
  <2>. QED BY <2>1, <1>2
<1>4. ASSUME k # Lost PROVE c < a + L /\ c <= a + k
  BY <1>4, <1>2 DEF InPhase
<1>. HIDE DEF a, d, L
<1>5. d = c + 1
  BY <1>1, <1>2, <1>3
<1>6. k # Lost => k + 1 >= L
  BY <1>1, <1>2, <1>3, <1>4, <1>5
<1>7. k # Lost => d < (n + 1 + 1) * L /\ d <= (n + 1) * L + 0
  BY <1>1, <1>2, <1>3, <1>4, <1>5
<1>. USE DEF L, d
<1>. QED BY <1>6, <1>7 DEF InPhase

\* An instruction inside a phase.
LEMMA MoveInPhase ==
  ASSUME NEW c \in 0 .. CycleMod - 1, NEW n \in Nat, NEW k \in Lost .. PHASE_LENGTH,
         InPhase(c, n, k), ~(((c + 1) % CycleMod) \div PHASE_LENGTH > n)
  PROVE  InPhase((c + 1) % CycleMod, n, IF k \in {Lost, PHASE_LENGTH} THEN k ELSE k + 1)
<1>. DEFINE L == PHASE_LENGTH  d == (c + 1) % CycleMod  a == n * L
<1>1. /\ L \in Nat /\ L >= 1 /\ CycleMod \in Nat /\ c \in Nat
      /\ d \in Nat /\ (d = c + 1 \/ d = 0)
      /\ k \in Int
  BY Sizes, CounterMoves DEF Lost
<1>2. a \in Nat /\ (n + 1) * L = a + L
  <2>. HIDE DEF L
  <2>. QED BY <1>1, Z3
<1>3. d < a + L
  <2>1. ~(d >= (n + 1) * L)
    BY <1>1, QuotientAbove
  <2>. QED BY <2>1, <1>1, <1>2
<1>4. ASSUME k # Lost PROVE k >= 0 /\ c <= a + k
  BY <1>4, <1>1, <1>2 DEF InPhase, Lost
<1>. HIDE DEF a, d, L
<1>5. k # Lost /\ k = L => d <= a + k
  BY <1>1, <1>2, <1>3
<1>6. k # Lost => d <= a + (k + 1)
  BY <1>1, <1>2, <1>4
<1>. USE DEF L, d, a
<1>. QED BY <1>2, <1>3, <1>5, <1>6 DEF InPhase

\* A step of one process that keeps the others' part of PhaseCounts.
LEMMA OthersInPhase ==
  ASSUME PInv, NEW p \in Procs,
         \A q \in Procs \ {p} :
           cycles'[q] = cycles[q] /\ phase'[q] = phase[q] /\ len'[q] = len[q],
         InPhase(cycles'[p], phase'[p], len'[p])
  PROVE  \A q \in Procs : InPhase(cycles'[q], phase'[q], len'[q])
BY DEF PInv

\* fastForward that ends a phase is EndPhase of the barrier.
LEMMA EndStep ==
  ASSUME PInv, NEW p \in Procs, FastForward(p), EndsPhase(p, cycles'[p]), Advance(p)
  PROVE  /\ EndPhase(p)
         /\ PInv'
         /\ len[p] = Lost \/ len[p] + 1 >= PHASE_LENGTH
<1>. DEFINE c == cycles[p]  n == phase[p]  k == len[p]  d == (c + 1) % CycleMod
<1>1. /\ c \in 0 .. CycleMod - 1 /\ n \in Nat /\ k \in Lost .. PHASE_LENGTH
      /\ InPhase(c, n, k)
  BY DEF PInv, ProgramOK, IInv, TypeOK
<1>2. cycles' = [cycles EXCEPT ![p] = d] /\ d \in 0 .. CycleMod - 1
  BY <1>1, CounterMoves DEF FastForward
<1>3. /\ cycles' \in [Procs -> 0 .. CycleMod - 1] /\ cycles'[p] = d
      /\ \A q \in Procs \ {p} : cycles'[q] = cycles[q]
  BY <1>2 DEF PInv, ProgramOK
<1>4. d \div PHASE_LENGTH > n
  BY <1>3 DEF EndsPhase
<1>5. n < PhaseBound
  BY <1>1, <1>2, <1>4, QuotientBound
<1>6. EndPhase(p)
  BY <1>5 DEF EndPhase, FastForward, Running, Advance, Goto
<1>7. IInv'
  BY <1>6, EndPhaseStep DEF PInv
<1>8. /\ k # Lost => k + 1 >= PHASE_LENGTH
      /\ InPhase(d, n + 1, IF k = Lost THEN Lost ELSE 0)
  BY <1>1, <1>4, EndInPhase
<1>9. /\ len' = [len EXCEPT ![p] = IF k = Lost THEN Lost ELSE 0]
      /\ (IF k = Lost THEN Lost ELSE 0) \in Lost .. PHASE_LENGTH
      /\ phase' = [phase EXCEPT ![p] = n + 1]
  BY Sizes DEF Advance, Lost
<1>10. /\ len' \in [Procs -> Lost .. PHASE_LENGTH]
       /\ len'[p] = (IF k = Lost THEN Lost ELSE 0)
       /\ phase'[p] = n + 1
       /\ \A q \in Procs \ {p} : len'[q] = len[q] /\ phase'[q] = phase[q]
  BY <1>9 DEF PInv, ProgramOK, IInv, TypeOK
<1>11. ops' \in [Procs -> Operands] /\ exited' = exited
  BY DEF FastForward, PInv, ProgramOK
<1>12. ProgramOK'
  BY <1>3, <1>10, <1>11 DEF ProgramOK, PInv
<1>13. \A q \in Procs : InPhase(cycles'[q], phase'[q], len'[q])
  BY <1>3, <1>8, <1>10, OthersInPhase
<1>. QED BY <1>6, <1>7, <1>8, <1>12, <1>13 DEF PInv

\* The barrier does not look at what the program changes.
LEMMA BarrierStands ==
  ASSUME PInv, UNCHANGED vars
  PROVE  IInv'
BY NextIInv DEF PInv

\* fastForward inside a phase.
LEMMA MoveStepInPhase ==
  ASSUME PInv, NEW p \in Procs, FastForward(p), ~EndsPhase(p, cycles'[p]),
         len' = [len EXCEPT ![p] = IF @ \in {Lost, PHASE_LENGTH} THEN @ ELSE @ + 1],
         UNCHANGED <<phase, pc>>
  PROVE  UNCHANGED vars /\ PInv'
<1>. DEFINE c == cycles[p]  n == phase[p]  k == len[p]  d == (c + 1) % CycleMod
            l == IF k \in {Lost, PHASE_LENGTH} THEN k ELSE k + 1
<1>1. /\ c \in 0 .. CycleMod - 1 /\ n \in Nat /\ k \in Lost .. PHASE_LENGTH
      /\ InPhase(c, n, k)
  BY DEF PInv, ProgramOK, IInv, TypeOK
<1>2. cycles' = [cycles EXCEPT ![p] = d] /\ d \in 0 .. CycleMod - 1
  BY <1>1, CounterMoves DEF FastForward
<1>3. /\ cycles' \in [Procs -> 0 .. CycleMod - 1] /\ cycles'[p] = d
      /\ \A q \in Procs \ {p} : cycles'[q] = cycles[q]
  BY <1>2 DEF PInv, ProgramOK
<1>4. ~(d \div PHASE_LENGTH > n)
  BY <1>3 DEF EndsPhase
<1>5. UNCHANGED vars
  BY DEF FastForward, vars
<1>6. InPhase(d, n, l)
  BY <1>1, <1>4, MoveInPhase
<1>7. l \in Lost .. PHASE_LENGTH
  BY <1>1, Sizes DEF Lost
<1>8. /\ len' \in [Procs -> Lost .. PHASE_LENGTH] /\ len'[p] = l
      /\ \A q \in Procs \ {p} : len'[q] = len[q]
  BY <1>7 DEF PInv, ProgramOK
<1>9. ops' \in [Procs -> Operands] /\ exited' = exited
  BY DEF FastForward, PInv, ProgramOK
<1>10. ProgramOK'
  BY <1>3, <1>8, <1>9 DEF ProgramOK, PInv
<1>11. \A q \in Procs : InPhase(cycles'[q], phase'[q], len'[q])
  BY <1>3, <1>6, <1>8, OthersInPhase
<1>. QED BY <1>5, <1>10, <1>11, BarrierStands DEF PInv

\* A memory operand takes the counter back, or loses it.
LEMMA OperandStep ==
  ASSUME PInv, NEW p \in Procs, RecordMem(p)
  PROVE  UNCHANGED vars /\ PInv'
<1>. DEFINE c == cycles[p]  n == phase[p]  d == (c - 1) % CycleMod
            l == IF c = 0 THEN Lost ELSE len[p]
<1>1. /\ c \in 0 .. CycleMod - 1 /\ n \in Nat /\ len[p] \in Lost .. PHASE_LENGTH
      /\ InPhase(c, n, len[p])
  BY DEF PInv, ProgramOK, IInv, TypeOK
<1>2. /\ cycles' = [cycles EXCEPT ![p] = d] /\ d \in 0 .. CycleMod - 1
      /\ c > 0 => d = c - 1
  BY <1>1, CounterMoves DEF RecordMem
<1>3. /\ cycles' \in [Procs -> 0 .. CycleMod - 1] /\ cycles'[p] = d
      /\ \A q \in Procs \ {p} : cycles'[q] = cycles[q]
  BY <1>2 DEF PInv, ProgramOK
<1>4. UNCHANGED vars
  BY DEF RecordMem
<1>5. l \in Lost .. PHASE_LENGTH
  BY <1>1, Sizes DEF Lost
<1>6. /\ len' \in [Procs -> Lost .. PHASE_LENGTH] /\ len'[p] = l
      /\ \A q \in Procs \ {p} : len'[q] = len[q]
  BY <1>5 DEF RecordMem, PInv, ProgramOK
<1>7. InPhase(d, n, l)
  <2>1. CASE c = 0
    BY <2>1 DEF InPhase
  <2>2. CASE c > 0
    <3>. DEFINE upper == (n + 1) * PHASE_LENGTH  lower == n * PHASE_LENGTH
    <3>1. upper \in Nat /\ lower \in Nat
      BY <1>1, Sizes
    <3>2. len[p] # Lost => c < upper /\ c <= lower + len[p]
      BY <1>1 DEF InPhase
    <3>. HIDE DEF upper, lower
    <3>3. len[p] # Lost => d < upper /\ d <= lower + len[p]
      BY <1>1, <1>2, <2>2, <3>1, <3>2, Sizes DEF Lost
    <3>. USE DEF upper, lower
    <3>. QED BY <2>2, <3>3, <1>1 DEF InPhase
  <2>. QED BY <1>1, <2>1, <2>2, Sizes
<1>8. ops' \in [Procs -> Operands] /\ exited' = exited
  <2>1. ops[p] \in 0 .. MaxOps /\ ops[p] > 0
    BY DEF RecordMem, PInv, ProgramOK, Operands
  <2>2. ops[p] - 1 \in 0 .. MaxOps
    BY <2>1, Sizes
  <2>. QED BY <2>2 DEF RecordMem, PInv, ProgramOK, Operands
<1>9. ProgramOK'
  BY <1>3, <1>6, <1>8 DEF ProgramOK, PInv
<1>10. \A q \in Procs : InPhase(cycles'[q], phase'[q], len'[q])
  BY <1>3, <1>4, <1>6, <1>7, OthersInPhase DEF vars
<1>. QED BY <1>4, <1>9, <1>10, BarrierStands DEF PInv

\* Nothing but the barrier moves.
LEMMA BarrierStep ==
  ASSUME PInv, [Next]_vars, UNCHANGED program, UNCHANGED phase
  PROVE  PInv'
<1>1. IInv'
  BY NextIInv DEF PInv
<1>2. ProgramOK'
  BY DEF PInv, ProgramOK, program
<1>3. \A q \in Procs : InPhase(cycles'[q], phase'[q], len'[q])
  BY DEF PInv, program
<1>. QED BY <1>1, <1>2, <1>3 DEF PInv

\* No step inside the barrier ends a phase.
LEMMA WaitKeepsPhase ==
  ASSUME NEW p \in Procs, Wait(p) \/ Reload(p)
  PROVE  UNCHANGED phase
BY DEF Wait, Reload, Gate, Update, Scan, Store, Weaving, Report, Lower

\* The program exits.
LEMMA ExitStep ==
  ASSUME PInv, NEW p \in Procs, Exit(p)
  PROVE  UNCHANGED vars /\ PInv'
<1>1. UNCHANGED vars /\ UNCHANGED <<cycles, ops, len>>
  BY DEF Exit
<1>2. ProgramOK'
  BY <1>1 DEF Exit, PInv, ProgramOK
<1>3. \A q \in Procs : InPhase(cycles'[q], phase'[q], len'[q])
  BY <1>1 DEF PInv, vars
<1>. QED BY <1>1, <1>2, <1>3, BarrierStands DEF PInv

LongEnough(p) ==
  phase'[p] # phase[p] => len[p] = Lost \/ len[p] + 1 >= PHASE_LENGTH

\* An instruction, one way or the other.
LEMMA FastForwardStep ==
  ASSUME PInv, NEW p \in Procs, FastForward(p)
  PROVE  [Next]_vars /\ PInv' /\ \A q \in Procs : LongEnough(q)
<1>1. CASE EndsPhase(p, cycles'[p]) /\ Advance(p)
  <2>1. /\ EndPhase(p) /\ PInv'
        /\ len[p] = Lost \/ len[p] + 1 >= PHASE_LENGTH
    BY <1>1, EndStep
  <2>2. \A q \in Procs \ {p} : phase'[q] = phase[q]
    BY <2>1 DEF EndPhase, PInv, IInv, TypeOK
  <2>. QED BY <2>1, <2>2 DEF Next, LongEnough
<1>2. CASE /\ ~EndsPhase(p, cycles'[p])
           /\ len' = [len EXCEPT ![p] = IF @ \in {Lost, PHASE_LENGTH} THEN @ ELSE @ + 1]
           /\ UNCHANGED <<phase, pc>>
  BY <1>2, MoveStepInPhase DEF LongEnough
<1>. QED BY <1>1, <1>2 DEF FastForward

\* Every step keeps the invariant, is a step of the barrier, and ends no phase
\* early.
LEMMA PhasesStep ==
  ASSUME PInv, [PhasesNext]_phaseVars
  PROVE  [Next]_vars /\ PInv' /\ \A q \in Procs : LongEnough(q)
<1>1. CASE UNCHANGED phaseVars
  <2>1. UNCHANGED vars /\ UNCHANGED program /\ UNCHANGED phase
    BY <1>1 DEF phaseVars, vars
  <2>. QED BY <2>1, BarrierStep DEF LongEnough
<1>2. ASSUME NEW p \in Procs, FastForward(p)
      PROVE  [Next]_vars /\ PInv' /\ \A q \in Procs : LongEnough(q)
  BY <1>2, FastForwardStep
<1>3. ASSUME NEW p \in Procs, RecordMem(p) \/ Exit(p)
      PROVE  [Next]_vars /\ PInv' /\ \A q \in Procs : LongEnough(q)
  BY <1>3, OperandStep, ExitStep DEF LongEnough, vars
<1>4. ASSUME NEW p \in Procs, Wait(p) \/ Reload(p), UNCHANGED program
      PROVE  [Next]_vars /\ PInv' /\ \A q \in Procs : LongEnough(q)
  <2>1. UNCHANGED phase
    BY <1>4, WaitKeepsPhase
  <2>2. [Next]_vars
    BY <1>4 DEF Next
  <2>. QED BY <1>4, <2>1, <2>2, BarrierStep DEF LongEnough
<1>. QED BY <1>1, <1>2, <1>3, <1>4 DEF PhasesNext, Step

LEMMA PhasesInvariance == PhasesSpec => []PInv
BY InitPInv, PhasesStep, PTL DEF PhasesSpec

\* Counters, operands and the barrier keep their types: no phase is ever beyond
\* the largest quotient, although nothing in the code limits it.
THEOREM PhasesTypeCorrect == PhasesSpec => []PhasesTypeOK
<1>1. PInv => PhasesTypeOK
  BY DEF PInv, IInv, ProgramOK, PhasesTypeOK
<1>. QED BY <1>1, PhasesInvariance, PTL

\* A phase takes PHASE_LENGTH instructions at least, unless the counter of its
\* process has been decremented at 0.
THEOREM PhaseTakesLengthHolds == PhasesSpec => PhaseTakesLength
<1>1. ASSUME PInv, [PhasesNext]_phaseVars
      PROVE  [\A p \in Procs :
                phase'[p] # phase[p] =>
                  len[p] = Lost \/ len[p] + 1 >= PHASE_LENGTH]_phaseVars
  BY <1>1, PhasesStep DEF LongEnough
<1>. QED BY <1>1, PhasesInvariance, PTL DEF PhasesSpec, PhaseTakesLength

\* With the counters hidden, what runs is the barrier of Weave, with no other
\* bound on the phases than the width of the counter.
THEOREM Refinement == PhasesSpec => ImplementsWeave
<1>1. PhasesInit => Init
  BY DEF PhasesInit
<1>2. ASSUME PInv, [PhasesNext]_phaseVars PROVE [Next]_vars
  BY <1>2, PhasesStep
<1>. QED BY <1>1, <1>2, PhasesInvariance, PTL DEF PhasesSpec, ImplementsWeave, Spec

\* So no gate ever opens for a phase that process 0 has not ended.
THEOREM PublishedIsReached == PhasesSpec => []GlobalPhaseReached
BY Refinement, GlobalPhaseReachedHolds, PTL DEF ImplementsWeave

\* With the cycle counters in place, too, two processes are never more than one
\* phase away from the global one.
THEOREM PhasesOneAhead ==
  ASSUME numProcs <= 2
  PROVE  PhasesSpec => []OneAhead
BY Refinement, OneAheadHolds, PTL DEF ImplementsWeave

\* Nor does the global phase go back between two programs, whatever their
\* instructions do to the counters.
THEOREM PhasesGlobalPhaseGrows ==
  ASSUME numProcs <= 2
  PROVE  PhasesSpec => GlobalPhaseGrows
BY Refinement, GlobalPhaseGrowsHolds, PTL DEF ImplementsWeave
=============================================================================
