---------------------------- MODULE WeaveProofs ----------------------------
(***************************************************************************)
(* Proofs about Weave, for every number of processes.                      *)
(***************************************************************************)
EXTENDS Weave, TLAPS

\* What a process has read of phase[0] is never ahead of it.
ReadsAreOld == \A p \in Procs : base[p] <= phase[0]

\* GlobalPhaseReached is not inductive: what is published was read earlier.
IInv == TypeOK /\ ReadsAreOld /\ GlobalPhaseReached

\* Process 0 exists.
LEMMA ZeroIn == 0 \in Procs /\ numProcs \in Nat /\ PhaseBound \in Nat
BY WeaveAssumption DEF Procs

\* SimInit establishes the invariant.
LEMMA InitIInv == Init => IInv
<1>. SUFFICES ASSUME Init PROVE IInv
  OBVIOUS
<1>1. TypeOK
  <2>1. 0 \in 0 .. PhaseBound /\ 0 \in 0 .. numProcs
    BY ZeroIn
  <2>. QED BY <2>1, Zenon DEF Init, TypeOK, Stages
<1>2. ReadsAreOld /\ GlobalPhaseReached
  BY ZeroIn DEF Init, ReadsAreOld, GlobalPhaseReached
<1>. QED BY <1>1, <1>2 DEF IInv

\* A step that moves only the program counter of one process.
LEMMA MoveStep ==
  ASSUME IInv, NEW p \in Procs, NEW stage \in Stages, Goto(p, stage),
         UNCHANGED <<phase, global_phase, base>>,
         weave' \in BOOLEAN, i' \in [Procs -> 0 .. numProcs],
         pending' \in [Procs -> SUBSET Stores]
  PROVE  IInv'
<1>1. TypeOK'
  BY DEF IInv, TypeOK, Goto
<1>2. ReadsAreOld' /\ GlobalPhaseReached'
  BY DEF IInv, ReadsAreOld, GlobalPhaseReached
<1>. QED BY <1>1, <1>2 DEF IInv

\* A phase that ends only moves phase[0] up.
LEMMA EndPhaseStep ==
  ASSUME IInv, NEW p \in Procs, EndPhase(p)
  PROVE  IInv'
<1>. USE ZeroIn
<1>0. phase' \in [Procs -> 0 .. PhaseBound] /\ phase[0] <= phase'[0]
  BY DEF IInv, TypeOK, EndPhase
<1>1. TypeOK'
  BY <1>0 DEF IInv, TypeOK, EndPhase, Goto, Stages
<1>2. ReadsAreOld'
  BY <1>0 DEF IInv, TypeOK, ReadsAreOld, EndPhase
<1>3. GlobalPhaseReached'
  BY <1>0 DEF IInv, TypeOK, GlobalPhaseReached, EndPhase
<1>. QED BY <1>1, <1>2, <1>3 DEF IInv

\* Reading phase[0] makes the register equal to it.
LEMMA ReadStep ==
  ASSUME IInv, NEW p \in Procs, base' = [base EXCEPT ![p] = phase[0]],
         UNCHANGED <<phase, global_phase, weave, pending>>,
         pc' \in [Procs -> Stages], i' \in [Procs -> 0 .. numProcs]
  PROVE  IInv'
<1>. USE ZeroIn
<1>1. TypeOK'
  BY DEF IInv, TypeOK
<1>2. ReadsAreOld'
  BY DEF IInv, TypeOK, ReadsAreOld
<1>3. GlobalPhaseReached'
  BY DEF IInv, GlobalPhaseReached
<1>. QED BY <1>1, <1>2, <1>3 DEF IInv

\* One iteration of the loop over the phases changes nothing shared.
LEMMA ScanStep ==
  ASSUME IInv, NEW p \in Procs, Scan(p)
  PROVE  IInv'
<1>. USE ZeroIn
<1>1. CASE Goto(p, "gate") /\ UNCHANGED <<i, pending>>
  BY <1>1, MoveStep DEF IInv, TypeOK, Scan, Stages
<1>2. CASE i[p] < numProcs /\ i' = [i EXCEPT ![p] = @ + 1] /\ UNCHANGED <<pc, pending>>
  <2>1. i' \in [Procs -> 0 .. numProcs]
    BY <1>2 DEF IInv, TypeOK
  <2>2. TypeOK'
    BY <1>2, <2>1 DEF IInv, TypeOK, Scan
  <2>3. ReadsAreOld' /\ GlobalPhaseReached'
    BY DEF IInv, ReadsAreOld, GlobalPhaseReached, Scan
  <2>. QED BY <2>2, <2>3 DEF IInv
<1>3. CASE pending' = [pending EXCEPT ![p] = Stores] /\ Goto(p, "store") /\ UNCHANGED i
  <2>1. pending' \in [Procs -> SUBSET Stores]
    BY <1>3 DEF IInv, TypeOK
  <2>. QED BY <1>3, <2>1, MoveStep DEF IInv, TypeOK, Scan, Stages
<1>. QED BY <1>1, <1>2, <1>3 DEF Scan

\* What is published was read before, so process 0 has ended it.
LEMMA StoreStep ==
  ASSUME IInv, NEW p \in Procs, Store(p)
  PROVE  IInv'
<1>. USE ZeroIn
<1>1. CASE Goto(p, "gate") /\ UNCHANGED <<global_phase, weave, pending>>
  BY <1>1, MoveStep DEF IInv, TypeOK, Store, Stages
<1>2. CASE /\ global_phase' = base[p]
           /\ pending' = [pending EXCEPT ![p] = @ \ {"global_phase"}]
           /\ UNCHANGED <<weave, pc>>
  <2>1. pending' \in [Procs -> SUBSET Stores]
    BY <1>2 DEF IInv, TypeOK
  <2>2. TypeOK'
    BY <1>2, <2>1 DEF IInv, TypeOK, Store
  <2>3. ReadsAreOld'
    BY DEF IInv, ReadsAreOld, Store
  <2>4. GlobalPhaseReached'
    BY <1>2 DEF IInv, ReadsAreOld, GlobalPhaseReached, Store
  <2>. QED BY <2>2, <2>3, <2>4 DEF IInv
<1>3. CASE /\ weave' = TRUE
           /\ pending' = [pending EXCEPT ![p] = @ \ {"weave"}]
           /\ UNCHANGED <<global_phase, pc>>
  <2>1. pending' \in [Procs -> SUBSET Stores]
    BY <1>3 DEF IInv, TypeOK
  <2>2. TypeOK'
    BY <1>3, <2>1 DEF IInv, TypeOK, Store
  <2>3. ReadsAreOld' /\ GlobalPhaseReached'
    BY <1>3 DEF IInv, ReadsAreOld, GlobalPhaseReached, Store
  <2>. QED BY <2>2, <2>3 DEF IInv
<1>. QED BY <1>1, <1>2, <1>3 DEF Store

\* Every step keeps the invariant.
LEMMA NextIInv == IInv /\ [Next]_vars => IInv'
<1>. SUFFICES ASSUME IInv, [Next]_vars PROVE IInv'
  OBVIOUS
<1>. USE ZeroIn
<1>1. CASE UNCHANGED vars
  BY <1>1 DEF vars, IInv, TypeOK, ReadsAreOld, GlobalPhaseReached
<1>2. ASSUME NEW p \in Procs, EndPhase(p) PROVE IInv'
  BY <1>2, EndPhaseStep
<1>3. ASSUME NEW p \in Procs, Reload(p) PROVE IInv'
  BY <1>3, ReadStep DEF IInv, TypeOK, Reload
<1>4. ASSUME NEW p \in Procs, Update(p) PROVE IInv'
  <2>1. i' \in [Procs -> 0 .. numProcs] /\ pc' \in [Procs -> Stages]
    BY <1>4, WeaveAssumption DEF IInv, TypeOK, Update, Goto, Stages
  <2>. QED BY <1>4, <2>1, ReadStep DEF Update
<1>5. ASSUME NEW p \in Procs, Scan(p) PROVE IInv'
  BY <1>5, ScanStep
<1>6. ASSUME NEW p \in Procs, Store(p) PROVE IInv'
  BY <1>6, StoreStep
<1>7. ASSUME NEW p \in Procs, Gate(p) PROVE IInv'
  BY <1>7, MoveStep DEF IInv, TypeOK, Gate, Stages
<1>8. ASSUME NEW p \in Procs, Weaving(p) PROVE IInv'
  BY <1>8, MoveStep DEF IInv, TypeOK, Weaving, Stages
<1>9. ASSUME NEW p \in Procs, Report(p) \/ Lower(p) PROVE IInv'
  BY <1>9, MoveStep DEF IInv, TypeOK, Report, Lower, Stages
<1>. QED BY <1>1, <1>2, <1>3, <1>4, <1>5, <1>6, <1>7, <1>8, <1>9 DEF Next, Wait

\* The invariant holds throughout.
LEMMA Invariance == Spec => []IInv
BY InitIInv, NextIInv, PTL DEF Spec

\* Every variable of the barrier keeps its type, with any number of processes.
THEOREM TypeCorrect == Spec => []TypeOK
<1>1. IInv => TypeOK
  BY DEF IInv
<1>. QED BY <1>1, Invariance, PTL

\* UpdateGlobalPhase never publishes a phase that process 0 has not ended,
\* however many processes there are and however old the value it publishes.
THEOREM GlobalPhaseReachedHolds == Spec => []GlobalPhaseReached
<1>1. IInv => GlobalPhaseReached
  BY DEF IInv
<1>. QED BY <1>1, Invariance, PTL

-----------------------------------------------------------------------------
(* Two processes *)

\* Process p is about to publish what it compared the phases with.
Agreed(p) ==
  \/ pc[p] = "scan" /\ i[p] = numProcs
  \/ pc[p] = "store" /\ "global_phase" \in pending[p]

\* Until then its own phase stands still, and is not below the global one.
Waiting(p) == pc[p] \in {"update", "scan"} \/ Agreed(p)

\* OneAhead is not inductive: it depends on what those who wait at the gate
\* have read.  Process 0 publishes its own phase, which the other has reached;
\* the other publishes at least its own.  Whoever is through the gate has not
\* ended more than the global phase.
TwoInv ==
  /\ IInv
  /\ OneAhead
  /\ \A p \in Procs : pc[p] \in {"run", "weave", "report", "lower"} => phase[p] <= global_phase
  /\ \A p \in Procs : Waiting(p) => global_phase <= phase[p]
  /\ \A p \in Procs : pc[p] = "scan" => i[p] \in 1 .. numProcs
  /\ pc[0] \in {"scan", "store"} => base[0] = phase[0]
  /\ \A p \in Procs : Agreed(p) => phase[p] <= base[p]
  /\ Agreed(0) => \A q \in Procs : phase[0] <= phase[q]

\* Everything a step of the barrier compares is a number.
LEMMA Numbers ==
  ASSUME IInv
  PROVE  /\ \A p \in Procs : phase[p] \in Nat /\ base[p] \in Nat /\ i[p] \in Nat
         /\ global_phase \in Nat /\ phase \in [Procs -> Nat] /\ base \in [Procs -> Nat]
         /\ i \in [Procs -> Nat] /\ pc \in [Procs -> Stages]
         /\ pending \in [Procs -> SUBSET Stores]
         /\ \A p \in Procs : base[p] <= phase[0]
         /\ global_phase <= phase[0]
BY ZeroIn DEF IInv, TypeOK, ReadsAreOld, GlobalPhaseReached

LEMMA InitTwoInv == Init => TwoInv
<1>. SUFFICES ASSUME Init PROVE TwoInv
  OBVIOUS
<1>1. IInv
  BY InitIInv
<1>. QED BY <1>1, ZeroIn DEF Init, TwoInv, OneAhead, Waiting, Agreed

\* A process that ends a phase is through the gate.
LEMMA EndPhaseTwo ==
  ASSUME TwoInv, NEW p \in Procs, EndPhase(p), IInv'
  PROVE  TwoInv'
<1>. USE ZeroIn
<1>1. /\ phase' = [phase EXCEPT ![p] = @ + 1] /\ pc' = [pc EXCEPT ![p] = "gate"]
      /\ pc[p] = "run" /\ UNCHANGED <<global_phase, i, base, pending>>
  BY DEF EndPhase, Goto
<1>2. phase[p] <= global_phase
  BY <1>1 DEF TwoInv
<1>3. \A q \in Procs : phase'[q] = IF q = p THEN phase[q] + 1 ELSE phase[q]
  BY <1>1, Numbers DEF TwoInv
<1>4. \A q \in Procs : pc'[q] = IF q = p THEN "gate" ELSE pc[q]
  BY <1>1, Numbers DEF TwoInv
<1>5. \A q \in Procs : Agreed(q)' <=> q # p /\ Agreed(q)
  BY <1>1, <1>4 DEF Agreed
<1>6. OneAhead'
  BY <1>1, <1>2, <1>3, Numbers DEF TwoInv, OneAhead
<1>7. \A q \in Procs :
        /\ pc'[q] \in {"run", "weave", "report", "lower"} => phase'[q] <= global_phase'
        /\ Waiting(q)' => global_phase' <= phase'[q]
        /\ pc'[q] = "scan" => i'[q] \in 1 .. numProcs
        /\ Agreed(q)' => phase'[q] <= base'[q]
  BY <1>1, <1>3, <1>4, <1>5 DEF TwoInv, Waiting
<1>8. pc'[0] \in {"scan", "store"} => base'[0] = phase'[0]
  BY <1>1, <1>3, <1>4 DEF TwoInv
<1>9. Agreed(0)' => \A q \in Procs : phase'[0] <= phase'[q]
  BY <1>1, <1>3, <1>5, Numbers DEF TwoInv
<1>. QED BY <1>6, <1>7, <1>8, <1>9 DEF TwoInv

\* A process that publishes nothing, whatever it reads.
LEMMA QuietTwo ==
  ASSUME TwoInv, NEW p \in Procs, IInv', UNCHANGED <<phase, global_phase>>,
         \A q \in Procs \ {p} : /\ pc'[q] = pc[q] /\ i'[q] = i[q] /\ base'[q] = base[q]
                                /\ pending'[q] = pending[q],
         pc'[p] \in {"run", "weave", "report", "lower"} => phase[p] <= global_phase,
         Waiting(p)' => global_phase <= phase[p],
         pc'[p] = "scan" => i'[p] \in 1 .. numProcs,
         p = 0 /\ pc'[0] \in {"scan", "store"} => base'[0] = phase[0],
         Agreed(p)' => phase[p] <= base'[p],
         p = 0 /\ Agreed(0)' => \A q \in Procs : phase[0] <= phase[q]
  PROVE  TwoInv'
<1>. USE ZeroIn
<1>1. OneAhead'
  BY DEF TwoInv, OneAhead
<1>2. \A q \in Procs \ {p} : (Agreed(q)' <=> Agreed(q)) /\ (Waiting(q)' <=> Waiting(q))
  BY DEF Agreed, Waiting
<1>3. \A q \in Procs :
        /\ pc'[q] \in {"run", "weave", "report", "lower"} => phase'[q] <= global_phase'
        /\ Waiting(q)' => global_phase' <= phase'[q]
        /\ pc'[q] = "scan" => i'[q] \in 1 .. numProcs
        /\ Agreed(q)' => phase'[q] <= base'[q]
  BY <1>2 DEF TwoInv
<1>4. /\ pc'[0] \in {"scan", "store"} => base'[0] = phase'[0]
      /\ Agreed(0)' => \A q \in Procs : phase'[0] <= phase'[q]
  BY <1>2 DEF TwoInv
<1>. QED BY <1>1, <1>3, <1>4 DEF TwoInv

\* Reading phase[0], at the start of UpdateGlobalPhase or again.
LEMMA ReadTwo ==
  ASSUME TwoInv, numProcs <= 2, NEW p \in Procs, Update(p) \/ Reload(p), IInv'
  PROVE  TwoInv'
<1>. USE ZeroIn
<1>1. /\ UNCHANGED <<phase, global_phase, pending>> /\ base' = [base EXCEPT ![p] = phase[0]]
      /\ \A q \in Procs \ {p} : /\ pc'[q] = pc[q] /\ i'[q] = i[q] /\ base'[q] = base[q]
                                /\ pending'[q] = pending[q]
      /\ base'[p] = phase[0]
  BY Numbers DEF TwoInv, Update, Reload, Goto
<1>2. CASE Update(p)
  <2>1. pc[p] = "update" /\ pc'[p] = "scan" /\ i'[p] = 1
    BY <1>2, Numbers DEF TwoInv, Update, Goto
  <2>2. Waiting(p)
    BY <2>1 DEF Waiting
  <2>3. global_phase <= phase[p]
    BY <2>2 DEF TwoInv
  <2>4. Agreed(p)' => numProcs = 1
    BY <2>1 DEF Agreed
  <2>5. numProcs = 1 => Procs = {0}
    BY DEF Procs
  <2>6. Agreed(p)' => phase[p] <= base'[p] /\ \A q \in Procs : phase[0] <= phase[q]
    BY <1>1, <2>4, <2>5, Numbers DEF TwoInv
  <2>7. 1 \in 1 .. numProcs
    BY WeaveAssumption
  <2>. QED BY <1>1, <2>1, <2>3, <2>6, <2>7, QuietTwo
<1>3. CASE Reload(p)
  <2>1. pc' = pc /\ i' = i /\ pc[p] \in {"scan", "store"}
    BY <1>3 DEF Reload
  <2>2. (Agreed(p)' <=> Agreed(p)) /\ (Waiting(p)' <=> Waiting(p))
    BY <1>1, <2>1 DEF Agreed, Waiting
  <2>3. Agreed(p) => phase[p] <= phase[0]
    BY Numbers DEF TwoInv
  <2>. QED BY <1>1, <2>1, <2>2, <2>3, QuietTwo DEF TwoInv
<1>. QED BY <1>2, <1>3

\* The loop over the phases: with two processes, process 0 compares its own
\* phase with that of the other, and the other compares its own with phase[0].
LEMMA ScanTwo ==
  ASSUME TwoInv, numProcs <= 2, NEW p \in Procs, Scan(p), IInv'
  PROVE  TwoInv'
<1>. USE ZeroIn
<1>1. /\ UNCHANGED <<phase, global_phase, base>> /\ pc[p] = "scan"
      /\ \A q \in Procs \ {p} : /\ pc'[q] = pc[q] /\ i'[q] = i[q] /\ base'[q] = base[q]
                                /\ pending'[q] = pending[q]
  BY Numbers DEF TwoInv, Scan, Goto
<1>2. /\ Waiting(p) /\ global_phase <= phase[p] /\ i[p] \in 1 .. numProcs
      /\ p = 0 => base[0] = phase[0]
  BY <1>1 DEF TwoInv, Waiting
<1>3. CASE Goto(p, "gate") /\ UNCHANGED <<i, pending>>
  <2>1. pc'[p] = "gate"
    BY <1>3, Numbers DEF TwoInv, Goto
  <2>. QED BY <1>1, <2>1, QuietTwo DEF Waiting, Agreed
<1>4. CASE /\ i[p] < numProcs /\ phase[i[p]] = base[p]
           /\ i' = [i EXCEPT ![p] = @ + 1] /\ UNCHANGED <<pc, pending>>
  <2>1. i[p] = 1 /\ numProcs = 2 /\ i'[p] = 2 /\ Procs = {0, 1} /\ phase[1] = base[p]
    BY <1>2, <1>4, Numbers DEF TwoInv, Procs
  <2>2. phase[p] <= base[p] /\ (p = 0 => \A q \in Procs : phase[0] <= phase[q])
    BY <1>2, <2>1, Numbers DEF TwoInv
  <2>3. 2 \in 1 .. numProcs
    BY <2>1
  <2>. QED BY <1>1, <1>2, <1>4, <2>1, <2>2, <2>3, QuietTwo DEF TwoInv
<1>5. CASE /\ i[p] = numProcs /\ pending' = [pending EXCEPT ![p] = Stores]
           /\ Goto(p, "store") /\ UNCHANGED i
  <2>1. pc'[p] = "store"
    BY <1>5, Numbers DEF TwoInv, Goto
  <2>2. Agreed(p)
    BY <1>1, <1>5 DEF Agreed
  <2>3. phase[p] <= base[p] /\ (p = 0 => \A q \in Procs : phase[0] <= phase[q])
    BY <2>2 DEF TwoInv
  <2>. QED BY <1>1, <1>2, <2>1, <2>3, QuietTwo
<1>. QED BY <1>1, <1>3, <1>4, <1>5 DEF Scan

\* What is published is neither below the global phase nor more than one ahead
\* of anybody, and nobody is more than one ahead of it.
LEMMA PublishTwo ==
  ASSUME TwoInv, numProcs <= 2, NEW p \in Procs, Agreed(p), pc[p] = "store"
  PROVE  /\ global_phase <= base[p]
         /\ \A q \in Procs : phase[q] <= base[p] + 1 /\ base[p] <= phase[q] + 1
<1>. USE ZeroIn
<1>1. /\ global_phase <= phase[p] /\ phase[p] <= base[p] /\ base[p] <= phase[0]
  BY Numbers DEF TwoInv, Waiting
<1>2. \A q \in Procs : phase[q] <= global_phase + 1 /\ global_phase <= phase[q] + 1
  BY DEF TwoInv, OneAhead
<1>3. \A q \in Procs : q = 0 \/ q = 1
  BY DEF Procs
<1>4. CASE p = 0
  <2>1. base[0] = phase[0] /\ \A q \in Procs : phase[0] <= phase[q]
    BY <1>4 DEF TwoInv
  <2>. QED BY <1>1, <1>2, <1>4, <2>1, Numbers DEF TwoInv
<1>5. CASE p = 1
  <2>1. \A q \in Procs : q = 0 \/ q = p
    BY <1>3, <1>5
  <2>2. phase[0] <= phase[p] + 1
    BY <1>1, <1>2, Numbers DEF TwoInv
  <2>. QED BY <1>1, <1>2, <2>1, <2>2, Numbers DEF TwoInv
<1>. QED BY <1>3, <1>4, <1>5

\* The two stores of UpdateGlobalPhase.
LEMMA StoreTwo ==
  ASSUME TwoInv, numProcs <= 2, NEW p \in Procs, Store(p), IInv'
  PROVE  TwoInv' /\ global_phase <= global_phase'
<1>. USE ZeroIn
<1>1. /\ UNCHANGED <<phase, i, base>> /\ pc[p] = "store"
      /\ p = 0 => base[0] = phase[0]
      /\ \A q \in Procs \ {p} : /\ pc'[q] = pc[q] /\ i'[q] = i[q] /\ base'[q] = base[q]
                                /\ pending'[q] = pending[q]
  BY Numbers DEF TwoInv, Store, Goto
<1>2. CASE pending[p] = {} /\ Goto(p, "gate") /\ UNCHANGED <<global_phase, weave, pending>>
  <2>1. pc'[p] = "gate"
    BY <1>2, Numbers DEF TwoInv, Goto
  <2>. QED BY <1>1, <1>2, <2>1, QuietTwo, Numbers DEF Waiting, Agreed, TwoInv
<1>3. CASE /\ "weave" \in pending[p] /\ weave' = TRUE
           /\ pending' = [pending EXCEPT ![p] = @ \ {"weave"}]
           /\ UNCHANGED <<global_phase, pc>>
  <2>1. "global_phase" \in pending'[p] <=> "global_phase" \in pending[p]
    BY <1>3, Numbers DEF TwoInv
  <2>2. Agreed(p)' <=> Agreed(p)
    BY <1>1, <1>3, <2>1 DEF Agreed
  <2>3. Waiting(p)' <=> Waiting(p)
    BY <1>1, <1>3, <2>2 DEF Waiting
  <2>4. TwoInv'
    BY <1>1, <1>3, <2>2, <2>3, QuietTwo DEF TwoInv
  <2>. QED BY <1>3, <2>4, Numbers DEF TwoInv
<1>4. CASE /\ "global_phase" \in pending[p] /\ global_phase' = base[p]
           /\ pending' = [pending EXCEPT ![p] = @ \ {"global_phase"}]
           /\ UNCHANGED <<weave, pc>>
  <2>1. Agreed(p)
    BY <1>1, <1>4 DEF Agreed
  <2>2. /\ global_phase <= global_phase'
        /\ \A q \in Procs : phase[q] <= global_phase' + 1 /\ global_phase' <= phase[q] + 1
    BY <1>1, <1>4, <2>1, PublishTwo
  <2>3. ~Agreed(p)' /\ ~Waiting(p)' /\ \A q \in Procs \ {p} : Agreed(q)' <=> Agreed(q)
    BY <1>1, <1>4, Numbers DEF TwoInv, Agreed, Waiting
  <2>4. \A q \in Procs :
          pc'[q] \in {"run", "weave", "report", "lower"} => phase'[q] <= global_phase'
    BY <1>1, <1>4, <2>2, Numbers DEF TwoInv
  <2>5. ASSUME NEW q \in Procs, Waiting(q)'
        PROVE  global_phase' <= phase'[q]
    <3>1. q # p /\ Waiting(q)
      BY <1>1, <2>3, <2>5 DEF Waiting
    <3>2. CASE p = 0
      BY <1>1, <1>4, <2>1, <3>2 DEF TwoInv
    <3>3. CASE p = 1
      <4>1. q = 0
        BY <3>1, <3>3 DEF Procs
      <4>. QED BY <1>1, <1>4, <4>1, Numbers DEF TwoInv
    <3>. QED BY <3>2, <3>3 DEF Procs
  <2>6. \A q \in Procs : /\ pc'[q] = "scan" => i'[q] \in 1 .. numProcs
                         /\ Agreed(q)' => phase'[q] <= base'[q]
    BY <1>1, <1>4, <2>3 DEF TwoInv
  <2>7. /\ pc'[0] \in {"scan", "store"} => base'[0] = phase'[0]
        /\ Agreed(0)' => \A q \in Procs : phase'[0] <= phase'[q]
    BY <1>1, <1>4, <2>3 DEF TwoInv
  <2>8. OneAhead'
    BY <1>1, <2>2 DEF OneAhead
  <2>. QED BY <2>2, <2>4, <2>5, <2>6, <2>7, <2>8 DEF TwoInv
<1>. QED BY <1>2, <1>3, <1>4 DEF Store

\* The gate, and what comes after it.
LEMMA GateTwo ==
  ASSUME TwoInv, NEW p \in Procs, Gate(p) \/ Weaving(p) \/ Report(p) \/ Lower(p), IInv'
  PROVE  TwoInv'
<1>. USE ZeroIn
<1>1. /\ UNCHANGED <<phase, global_phase, i, base, pending>>
      /\ \A q \in Procs \ {p} : /\ pc'[q] = pc[q] /\ i'[q] = i[q] /\ base'[q] = base[q]
                                /\ pending'[q] = pending[q]
  BY Numbers DEF TwoInv, Gate, Weaving, Report, Lower, Goto
<1>2. CASE Gate(p)
  <2>1. pc'[p] = IF phase[p] > global_phase THEN "update" ELSE "weave"
    BY <1>2, Numbers DEF TwoInv, Gate, Goto
  <2>. QED BY <1>1, <2>1, QuietTwo, Numbers DEF Waiting, Agreed, TwoInv
<1>3. CASE Weaving(p) \/ Report(p) \/ Lower(p)
  <2>1. pc[p] \in {"weave", "report", "lower"} /\ pc'[p] \in {"run", "weave", "report", "lower"}
    BY <1>3, Numbers DEF TwoInv, Weaving, Report, Lower, Goto
  <2>. QED BY <1>1, <2>1, QuietTwo DEF Waiting, Agreed, TwoInv
<1>. QED BY <1>2, <1>3

LEMMA NextTwoInv ==
  ASSUME numProcs <= 2
  PROVE  TwoInv /\ [Next]_vars => TwoInv' /\ global_phase <= global_phase'
<1>. SUFFICES ASSUME TwoInv, [Next]_vars PROVE TwoInv' /\ global_phase <= global_phase'
  OBVIOUS
<1>1. IInv' /\ global_phase \in Nat
  BY NextIInv, Numbers DEF TwoInv
<1>2. CASE UNCHANGED vars
  BY <1>1, <1>2 DEF vars, TwoInv, OneAhead, Waiting, Agreed
<1>3. ASSUME NEW p \in Procs, Store(p)
      PROVE  TwoInv' /\ global_phase <= global_phase'
  BY <1>1, <1>3, StoreTwo
<1>4. ASSUME NEW p \in Procs, EndPhase(p)
      PROVE  TwoInv' /\ global_phase <= global_phase'
  <2>1. TwoInv'
    BY <1>1, <1>4, EndPhaseTwo
  <2>2. global_phase' = global_phase
    BY <1>4 DEF EndPhase
  <2>. QED BY <1>1, <2>1, <2>2
<1>5. ASSUME NEW p \in Procs, Update(p) \/ Reload(p)
      PROVE  TwoInv' /\ global_phase <= global_phase'
  BY <1>1, <1>5, ReadTwo DEF Update, Reload
<1>6. ASSUME NEW p \in Procs, Scan(p)
      PROVE  TwoInv' /\ global_phase <= global_phase'
  BY <1>1, <1>6, ScanTwo DEF Scan
<1>7. ASSUME NEW p \in Procs, Gate(p) \/ Weaving(p) \/ Report(p) \/ Lower(p)
      PROVE  TwoInv' /\ global_phase <= global_phase'
  <2>1. TwoInv'
    BY <1>1, <1>7, GateTwo
  <2>2. global_phase' = global_phase
    BY <1>7 DEF Gate, Weaving, Report, Lower
  <2>. QED BY <1>1, <2>1, <2>2
<1>. QED BY <1>2, <1>3, <1>4, <1>5, <1>6, <1>7 DEF Next, Wait

\* Between two processes the barrier is loose by one phase at most: nobody ends
\* a phase more than one beyond the global one, nor is the global one more than
\* one beyond anybody.
THEOREM OneAheadHolds ==
  ASSUME numProcs <= 2
  PROVE  Spec => []OneAhead
<1>1. TwoInv => OneAhead
  BY DEF TwoInv
<1>2. TwoInv /\ [Next]_vars => TwoInv'
  BY NextTwoInv
<1>. QED BY <1>1, <1>2, InitTwoInv, PTL DEF Spec

\* Between two processes UpdateGlobalPhase never takes the global phase back,
\* however old what it read is.
THEOREM GlobalPhaseGrowsHolds ==
  ASSUME numProcs <= 2
  PROVE  Spec => GlobalPhaseGrows
<1>1. TwoInv /\ [Next]_vars => TwoInv'
  BY NextTwoInv
<1>2. TwoInv /\ [Next]_vars => [global_phase' >= global_phase]_vars
  <2>1. ASSUME TwoInv, [Next]_vars
        PROVE  global_phase' >= global_phase
    <3>1. global_phase <= global_phase' /\ global_phase \in Nat /\ global_phase' \in Nat
      BY <2>1, NextTwoInv, Numbers DEF TwoInv, IInv, TypeOK
    <3>. QED BY <3>1
  <2>. QED BY <2>1
<1>. QED BY <1>1, <1>2, InitTwoInv, PTL DEF Spec, GlobalPhaseGrows
=============================================================================
