------------------------------- MODULE Phases -------------------------------
(***************************************************************************)
(* The cycle counters that drive the phase barrier (fastForward,           *)
(* RecordMemRead and RecordMemWrite in src/libsim.cpp).  Before every      *)
(* instruction fastForward adds one to the process's cycles and compares   *)
(* their quotient by PHASE_LENGTH with its phase; after that each memory   *)
(* operand of the instruction takes one away again.  The counter is a      *)
(* uint32_t: it wraps at both ends.                                        *)
(*                                                                         *)
(* This is Weave with its EndPhase replaced by the program that leads to   *)
(* it; the program may exit, after which Fini runs and nothing else.       *)
(***************************************************************************)
EXTENDS Weave

CONSTANTS
  CycleMod,     \* values of the counter: 2^32 in the code
  PHASE_LENGTH, \* cycles of a phase
  MaxOps        \* BOUND: memory operands of one instruction

\* No quotient is larger than PhaseBound, which here bounds nothing else.
ASSUME PhasesAssumption ==
  /\ CycleMod \in Nat \ {0} /\ PHASE_LENGTH \in Nat \ {0} /\ MaxOps \in Nat
  /\ PhaseBound = (CycleMod - 1) \div PHASE_LENGTH

VARIABLES
  cycles,       \* [Procs -> 0 .. CycleMod - 1]
  ops,          \* [Procs -> 0 .. MaxOps]: operands of the instruction still to come
  exited,       \* [Procs -> BOOLEAN]: the program has ended
  len           \* HISTORY: instructions since the last phase end, counted up to
                \* PHASE_LENGTH; Lost once the counter has been decremented at 0

program   == <<cycles, ops, exited, len>>
phaseVars == <<vars, program>>

Lost == -1

PhasesInit ==
  /\ Init
  /\ cycles = [p \in Procs |-> 0]
  /\ ops = [p \in Procs |-> 0]
  /\ exited = [p \in Procs |-> FALSE]
  /\ len = [p \in Procs |-> 0]

Running(p) == pc[p] = "run" /\ ~exited[p]

\* MUTANT of EndsPhase: a quotient equal to the phase ends it.
EndsPhaseEarly(p, c) == c \div PHASE_LENGTH >= phase[p]

\* cycles[id]/PHASE_LENGTH > phase[id]
EndsPhase(p, c) == c \div PHASE_LENGTH > phase[p]

\* MUTANT of Advance: the phase catches up with the cycles in one go.
AdvanceToQuotient(p) ==
  /\ phase' = [phase EXCEPT ![p] = cycles'[p] \div PHASE_LENGTH]
  /\ Goto(p, "gate")
  /\ len' = [len EXCEPT ![p] = IF @ = Lost THEN Lost ELSE 0]

\* phase[id]++; weave(id);
Advance(p) ==
  /\ phase' = [phase EXCEPT ![p] = @ + 1]
  /\ Goto(p, "gate")
  /\ len' = [len EXCEPT ![p] = IF @ = Lost THEN Lost ELSE 0]

\* Instruction hooks a call of RecordMemRead or RecordMemWrite to every memory
\* operand, before the instruction; a false predicate suppresses them.
Operands == 0 .. MaxOps

\* fastForward before an instruction with any number of memory operands.
FastForward(p) ==
  /\ Running(p)
  /\ ops[p] = 0
  /\ cycles' = [cycles EXCEPT ![p] = (@ + 1) % CycleMod]
  /\ ops' \in {[ops EXCEPT ![p] = n] : n \in Operands}
  /\ \/ EndsPhase(p, cycles'[p]) /\ Advance(p)
     \/ /\ ~EndsPhase(p, cycles'[p])
        /\ len' = [len EXCEPT ![p] = IF @ \in {Lost, PHASE_LENGTH} THEN @ ELSE @ + 1]
        /\ UNCHANGED <<phase, pc>>
  /\ UNCHANGED <<global_phase, weave, i, base, pending, exited>>

\* cycles[id]--, at the head of RecordMemRead and RecordMemWrite.
RecordMem(p) ==
  /\ Running(p)
  /\ ops[p] > 0
  /\ cycles' = [cycles EXCEPT ![p] = (@ - 1) % CycleMod]
  /\ len' = IF cycles[p] = 0 THEN [len EXCEPT ![p] = Lost] ELSE len
  /\ ops' = [ops EXCEPT ![p] = @ - 1]
  /\ UNCHANGED <<vars, exited>>

\* The program ends.
Exit(p) ==
  /\ Running(p)
  /\ ops[p] = 0
  /\ exited' = [exited EXCEPT ![p] = TRUE]
  /\ UNCHANGED <<vars, cycles, ops, len>>

Step(p) ==
  \/ FastForward(p)
  \/ RecordMem(p)
  \/ Exit(p)
  \/ Wait(p) /\ UNCHANGED program

PhasesNext == \E p \in Procs : Step(p) \/ (Reload(p) /\ UNCHANGED program)

PhasesSpec == PhasesInit /\ [][PhasesNext]_phaseVars

\* Every process keeps executing until it exits.
PhasesFairSpec == PhasesSpec /\ \A p \in Procs : WF_phaseVars(Step(p))

-----------------------------------------------------------------------------
(* Properties *)

PhasesTypeOK ==
  /\ TypeOK
  /\ cycles \in [Procs -> 0 .. CycleMod - 1]
  /\ ops \in [Procs -> Operands]
  /\ exited \in [Procs -> BOOLEAN]
  /\ len \in [Procs -> Lost .. PHASE_LENGTH]

\* A phase takes PHASE_LENGTH instructions at least.  Only a program whose
\* memory operands have at some time outnumbered its instructions, so that
\* its counter wrapped below zero, ends phases sooner.
PhaseTakesLength ==
  [][\A p \in Procs :
       phase'[p] # phase[p] => len[p] = Lost \/ len[p] + 1 >= PHASE_LENGTH]_phaseVars

\* Seen from outside this is the barrier of Weave with a bound on the phases:
\* once 2^32 \div PHASE_LENGTH phases have ended, no process ends another.
ImplementsWeave == Spec

\* Everybody who ends a phase gets through the barrier and runs again, unless
\* the flag stays up with a process other than 0 waiting for it, or some process
\* never ends another phase: it has exited, it has used up the phases its
\* counter can tell apart, or it executes memory operands for ever.
BarrierStalls ==
  \/ \A p \in Procs : pc[p] = "gate" ~> pc[p] = "run"
  \/ <>[](weave /\ \E p \in Procs \ {0} : pc[p] = "weave")
  \/ <>[](\E p \in Procs : pc[p] = "run" /\ (exited[p] \/ phase[p] = PhaseBound))
  \/ \E p \in Procs : <>[](pc[p] = "run") /\ []<>(ops[p] > 0)
=============================================================================
