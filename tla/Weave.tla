------------------------------- MODULE Weave -------------------------------
(***************************************************************************)
(* The phase barrier of the simulated processes (fastForward,              *)
(* UpdateGlobalPhase and weave in src/libsim.cpp): a process that has run  *)
(* PHASE_LENGTH cycles waits until every other process has, and process 0  *)
(* then reports and clears the counters of the phase.                      *)
(*                                                                         *)
(* The processes share phase, global_phase and weave without a lock.  Each *)
(* step here is one access to the shared memory.  The compiler may keep    *)
(* phase[0] in a register while UpdateGlobalPhase runs or read it again,   *)
(* and it may reorder the two stores at its end: both are choices here.    *)
(***************************************************************************)
EXTENDS Integers

CONSTANTS
  numProcs,     \* processes that simulate (procIdx 0 .. numProcs - 1)
  PhaseBound    \* BOUND: no process ends more than PhaseBound phases

ASSUME WeaveAssumption == numProcs \in Nat \ {0} /\ PhaseBound \in Nat

VARIABLES
  phase,          \* [Procs -> Nat]: phases the process has ended
  global_phase,   \* the last phase that all of them have ended
  weave,          \* TRUE while process 0 has still to report
  pc,             \* [Procs -> Stages]
  i,              \* [Procs -> Nat]: loop variable of UpdateGlobalPhase
  base,           \* [Procs -> Nat]: phase[0] as UpdateGlobalPhase last read it
  pending         \* [Procs -> SUBSET Stores]: its stores still to come

vars == <<phase, global_phase, weave, pc, i, base, pending>>

Procs  == 0 .. numProcs - 1
Stages == {"run", "gate", "update", "scan", "store", "weave", "report", "lower"}
Stores == {"global_phase", "weave"}

Init ==
  /\ phase = [p \in Procs |-> 0]
  /\ global_phase = 0
  /\ weave = FALSE
  /\ pc = [p \in Procs |-> "run"]
  /\ i = [p \in Procs |-> 0]
  /\ base = [p \in Procs |-> 0]
  /\ pending = [p \in Procs |-> {}]

Goto(p, stage) == pc' = [pc EXCEPT ![p] = stage]

\* fastForward: the cycles of the process cross the end of its phase.
EndPhase(p) ==
  /\ pc[p] = "run"
  /\ phase[p] < PhaseBound
  /\ phase' = [phase EXCEPT ![p] = @ + 1]
  /\ Goto(p, "gate")
  /\ UNCHANGED <<global_phase, weave, i, base, pending>>

\* while (phase[id] > global_phase)
Gate(p) ==
  /\ pc[p] = "gate"
  /\ Goto(p, IF phase[p] > global_phase THEN "update" ELSE "weave")
  /\ UNCHANGED <<phase, global_phase, weave, i, base, pending>>

\* MUTANT of Update: phase[0] is not read again.
UpdateStale(p) ==
  /\ pc[p] = "update"
  /\ i' = [i EXCEPT ![p] = 1]
  /\ Goto(p, "scan")
  /\ UNCHANGED <<phase, global_phase, weave, base, pending>>

\* UpdateGlobalPhase starts.
Update(p) ==
  /\ pc[p] = "update"
  /\ base' = [base EXCEPT ![p] = phase[0]]
  /\ i' = [i EXCEPT ![p] = 1]
  /\ Goto(p, "scan")
  /\ UNCHANGED <<phase, global_phase, weave, pending>>

\* The compiler may read phase[0] again before any use of it.
Reload(p) ==
  /\ pc[p] \in {"scan", "store"}
  /\ base' = [base EXCEPT ![p] = phase[0]]
  /\ UNCHANGED <<phase, global_phase, weave, pc, i, pending>>

\* MUTANT of Scan: the phases are not compared.
ScanNothing(p) ==
  /\ pc[p] = "scan"
  /\ pending' = [pending EXCEPT ![p] = Stores]
  /\ Goto(p, "store")
  /\ UNCHANGED <<phase, global_phase, weave, i, base>>

\* One iteration of the loop, or its end.
Scan(p) ==
  /\ pc[p] = "scan"
  /\ \/ /\ i[p] < numProcs
        /\ phase[i[p]] # base[p]
        /\ Goto(p, "gate")
        /\ UNCHANGED <<i, pending>>
     \/ /\ i[p] < numProcs
        /\ phase[i[p]] = base[p]
        /\ i' = [i EXCEPT ![p] = @ + 1]
        /\ UNCHANGED <<pc, pending>>
     \/ /\ i[p] = numProcs
        /\ pending' = [pending EXCEPT ![p] = Stores]
        /\ Goto(p, "store")
        /\ UNCHANGED i
  /\ UNCHANGED <<phase, global_phase, weave, base>>

\* MUTANT of Store: one phase too many is published.
StoreNext(p) ==
  /\ pc[p] = "store"
  /\ pending' = [pending EXCEPT ![p] = {}]
  /\ global_phase' = base[p] + 1
  /\ weave' = TRUE
  /\ Goto(p, "gate")
  /\ UNCHANGED <<phase, i, base>>

\* global_phase = phase[0]; weave = true;
Store(p) ==
  /\ pc[p] = "store"
  /\ \/ /\ pending[p] = {}
        /\ Goto(p, "gate")
        /\ UNCHANGED <<global_phase, weave, pending>>
     \/ /\ "global_phase" \in pending[p]
        /\ global_phase' = base[p]
        /\ pending' = [pending EXCEPT ![p] = @ \ {"global_phase"}]
        /\ UNCHANGED <<weave, pc>>
     \/ /\ "weave" \in pending[p]
        /\ weave' = TRUE
        /\ pending' = [pending EXCEPT ![p] = @ \ {"weave"}]
        /\ UNCHANGED <<global_phase, pc>>
  /\ UNCHANGED <<phase, i, base>>

\* while (weave == true): process 0 reports, the others sleep.
Weaving(p) ==
  /\ pc[p] = "weave"
  /\ \/ ~weave /\ Goto(p, "run")
     \/ weave /\ p = 0 /\ Goto(p, "report")
  /\ UNCHANGED <<phase, global_phase, weave, i, base, pending>>

\* Process 0 prints and clears the counters of the phase ...
Report(p) ==
  /\ pc[p] = "report"
  /\ Goto(p, "lower")
  /\ UNCHANGED <<phase, global_phase, weave, i, base, pending>>

\* MUTANT of Lower: the flag stays up.
LowerNot(p) ==
  /\ pc[p] = "lower"
  /\ Goto(p, "weave")
  /\ UNCHANGED <<phase, global_phase, weave, i, base, pending>>

\* ... and lets the others go.
Lower(p) ==
  /\ pc[p] = "lower"
  /\ weave' = FALSE
  /\ Goto(p, "weave")
  /\ UNCHANGED <<phase, global_phase, i, base, pending>>

Wait(p) ==
  Gate(p) \/ Update(p) \/ Scan(p) \/ Store(p) \/ Weaving(p) \/ Report(p) \/ Lower(p)

Next == \E p \in Procs : EndPhase(p) \/ Wait(p) \/ Reload(p)

Spec == Init /\ [][Next]_vars

\* Every process keeps executing: it runs on through the barrier and reaches
\* the end of its phase.
FairSpec == Spec /\ \A p \in Procs : WF_vars(EndPhase(p)) /\ WF_vars(Wait(p))

-----------------------------------------------------------------------------
(* Properties *)

TypeOK ==
  /\ phase \in [Procs -> 0 .. PhaseBound]
  /\ global_phase \in 0 .. PhaseBound
  /\ weave \in BOOLEAN
  /\ pc \in [Procs -> Stages]
  /\ i \in [Procs -> 0 .. numProcs]
  /\ base \in [Procs -> 0 .. PhaseBound]
  /\ pending \in [Procs -> SUBSET Stores]

\* The gate never stands open for a phase that process 0, whose counter
\* UpdateGlobalPhase publishes, has not ended itself, however old the value
\* a process publishes is.
GlobalPhaseReached == global_phase <= phase[0]

\* Between two processes the barrier is loose, but not without bound: nobody
\* ends a phase more than one beyond the global one, and the global one is
\* at most one beyond any of them, so that two processes are never three
\* phases apart.
OneAhead ==
  \A p \in Procs : phase[p] <= global_phase + 1 /\ global_phase <= phase[p] + 1

\* Between two processes a late store never takes the global phase back.
GlobalPhaseGrows == [][global_phase' >= global_phase]_vars

-----------------------------------------------------------------------------
(* What a comment says and two processes do not keep *)

\* "Previous phase end" (src/libsim.cpp:588): a process that has ended a phase
\* other than the last one of the run eventually leaves the gate for good.
GateOpens ==
  \A p \in Procs : pc[p] = "gate" /\ phase[p] < PhaseBound ~> pc[p] \in {"weave", "run"}
=============================================================================
