------------------------------ MODULE Harness ------------------------------
(***************************************************************************)
(* The life of a simulation: the harness (src/epb.cpp) creates the shared  *)
(* segment, forks and execs one simulator process per core and reaps them; *)
(* the simulators (main and SimInit in src/libsim.cpp) attach to the       *)
(* segment, process 0 initialises and publishes what they share, the       *)
(* others wait for it, and all of them run their program, which waits at   *)
(* the end of every phase for the programs of the other cores (weave).     *)
(*                                                                         *)
(* A process may be killed at any time.  execvp may fail; the child then   *)
(* returns from LaunchProcess and goes on in the launching loop, a second  *)
(* harness with a copy of the first one's table.  The table has numProcs   *)
(* entries, and every loop over it runs to Slots (8): what lies behind it  *)
(* is memory of any content.                                               *)
(*                                                                         *)
(* The segment is marked for removal when it is created, so it exists as   *)
(* long as somebody is attached to it, and nobody can attach later.        *)
(*                                                                         *)
(* Weave and Phases have the barrier in single accesses to shared memory.  *)
(* Here it is as coarse as the life of a process needs: a scan of all      *)
(* phases, the publication of what it found, and the two loops of weave.   *)
(***************************************************************************)
EXTENDS Integers, FiniteSets

CONSTANTS
  numProcs,     \* simulator processes to launch
  Slots,        \* where the loops over childInfo end
  Mortal        \* BOUND: the processes that may be killed or fail to fork

ASSUME HarnessAssumption ==
  numProcs \in Nat \ {0} /\ Slots \in Nat /\ numProcs <= Slots /\ Mortal \subseteq Nat

VARIABLES
  proc,         \* [Pids -> Process]
  childInfo,    \* [Pids -> [Slot -> [pid, status]]]: the table of each harness
  ready,        \* GM->base_regp # nullptr
  filled,       \* how often the shared structures have been initialised
  lock,         \* the process that holds a lock in the segment, or NoPid
  lead,         \* [Cores -> Int]: phase[c] - global_phase
  weave,        \* the flag that process 0 clears at the end of a phase
  returned      \* HISTORY: harnesses whose main has returned

barrier == <<lead, weave>>
vars    == <<proc, childInfo, ready, filled, lock, barrier, returned>>

\* Each pass through the launching loop doubles the harnesses at most.
Pids  == 1 .. 2 ^ numProcs
NoPid == 0
Main  == 1      \* the harness that was started
Slot  == 0 .. Slots - 1
Cores == 0 .. numProcs - 1

HarnessStages == {"launch", "loop", "reap"}
UserStages    == {"run", "lock", "cs", "gate", "update", "report"}
SimStages     == {"prctl", "attach", "isready", "fill", "publish", "poll"} \cup UserStages

\* stage tells what the process executes: "none" before it exists, "forked"
\* between fork and exec, "zombie" until it is reaped and "gone" after that.
\* No pid is used twice.
Stages == {"none", "forked", "zombie", "gone"} \cup HarnessStages \cup SimStages

\* idx is the next procIdx to launch in a harness, the process's own otherwise;
\* armed says that it asked to be killed with its parent.
Process  == [stage : Stages, parent : Pids \cup {NoPid}, idx : 0 .. numProcs, armed : BOOLEAN]
Nobody   == [stage |-> "none", parent |-> NoPid, idx |-> 0, armed |-> FALSE]
Entry    == [pid : Pids \cup {NoPid}, status : {"INVALID", "RUNNING", "DONE"}]
Gone     == [Nobody EXCEPT !.stage = "gone"]

NoChild == [pid |-> NoPid, status |-> "INVALID"]
NoTable == [s \in Slot |-> NoChild]

\* gm_init: nobody has published anything in the segment, its locks are free.
NewSegment == ready = FALSE /\ filled = 0 /\ lock = NoPid

\* What SimInit writes into the structures of the barrier.  Nobody reads them
\* before, so they may have these values from the start.
NoPhase     == [c \in Cores |-> 0]
BarrierInit == lead = NoPhase /\ weave = FALSE

\* main of the harness up to the launching loop.
Init ==
  /\ proc = [p \in Pids |-> IF p = Main THEN [Nobody EXCEPT !.stage = "launch"] ELSE Nobody]
  /\ \E running \in SUBSET (Slot \ Cores) :
       childInfo = [p \in Pids |->
         IF p = Main
           THEN [s \in Slot |-> [NoChild EXCEPT !.status = IF s \in running THEN "RUNNING" ELSE "INVALID"]]
           ELSE NoTable]
  /\ NewSegment
  /\ BarrierInit
  /\ returned = {}

IsHarness(p) == proc[p].stage \in HarnessStages
IsSim(p)     == proc[p].stage \in SimStages
Alive(p)     == proc[p].stage \notin {"none", "zombie", "gone"}
Attached(p)  == Alive(p) /\ proc[p].stage \notin {"prctl", "attach"}

ParentAlive(p) == proc[p].parent # NoPid /\ Alive(proc[p].parent)

\* What is left of a process that ends: a zombie if there is a parent to reap
\* it, and init reaps its own children that are zombies already.
AfterDeath(p) ==
  [q \in Pids |->
     IF q = p THEN (IF ParentAlive(p) THEN [proc[p] EXCEPT !.stage = "zombie"] ELSE Gone)
     ELSE IF proc[q].parent = p /\ proc[q].stage = "zombie" THEN Gone
     ELSE proc[q]]

Dies(p) == proc' = AfterDeath(p) /\ childInfo' = [childInfo EXCEPT ![p] = NoTable]

Goto(p, stage) == proc' = [proc EXCEPT ![p].stage = stage]

-----------------------------------------------------------------------------
(* The harness *)

\* MUTANT of MoreToLaunch: one process too many.
MoreToLaunchAll(h) == proc[h].idx <= numProcs

MoreToLaunch(h) == proc[h].idx < numProcs

Fresh == {p \in Pids : proc[p] = Nobody}

\* The parent's table after the fork.
Recorded(h, c) ==
  [childInfo[h] EXCEPT ![proc[h].idx] = [pid |-> c, status |-> "RUNNING"]]

\* fork in LaunchProcess or LaunchTraceProcess.  The child's table is a copy of
\* the parent's before the parent wrote the child into it.
Fork(h) ==
  /\ proc[h].stage = "launch"
  /\ MoreToLaunch(h)
  /\ Fresh # {}
  /\ LET c == CHOOSE p \in Fresh : \A q \in Fresh : p <= q IN
       /\ proc' = [proc EXCEPT ![h].idx = @ + 1,
                     ![c] = [stage |-> "forked", parent |-> h, idx |-> proc[h].idx, armed |-> FALSE]]
       /\ childInfo' = [childInfo EXCEPT ![h] = Recorded(h, c), ![c] = childInfo[h]]
  /\ UNCHANGED <<ready, filled, lock, barrier, returned>>

\* fork fails: assert(cpid > 0) ends the harness.
ForkFails(h) ==
  /\ h \in Mortal
  /\ proc[h].stage = "launch"
  /\ MoreToLaunch(h)
  /\ Dies(h)
  /\ UNCHANGED <<ready, filled, lock, barrier, returned>>

\* All are launched.
Launched(h) ==
  /\ proc[h].stage = "launch"
  /\ ~MoreToLaunch(h)
  /\ Goto(h, "loop")
  /\ UNCHANGED <<childInfo, ready, filled, lock, barrier, returned>>

\* execvp succeeds: the child is a simulator and has nothing of the harness.
Exec(c) ==
  /\ proc[c].stage = "forked"
  /\ Goto(c, "prctl")
  /\ childInfo' = [childInfo EXCEPT ![c] = NoTable]
  /\ UNCHANGED <<ready, filled, lock, barrier, returned>>

\* execvp fails: LaunchProcess returns to the loop of main.
ExecFails(c) ==
  /\ proc[c].stage = "forked"
  /\ proc' = [proc EXCEPT ![c].stage = "launch", ![c].idx = @ + 1]
  /\ UNCHANGED <<childInfo, ready, filled, lock, barrier, returned>>

\* MUTANT of getNumChildren: the last slot of the table is not counted.
getNumChildrenShort(h) ==
  Cardinality({s \in Slot : s # numProcs - 1 /\ childInfo[h][s].status = "RUNNING"})

getNumChildren(h) == Cardinality({s \in Slot : childInfo[h][s].status = "RUNNING"})

\* The head of the waiting loop.  Until process 0 has published, nobody is
\* reaped.
Loop(h) ==
  /\ proc[h].stage = "loop"
  /\ getNumChildren(h) > 0
  /\ ready
  /\ Goto(h, "reap")
  /\ UNCHANGED <<childInfo, ready, filled, lock, barrier, returned>>

\* main returns.
Return(h) ==
  /\ proc[h].stage = "loop"
  /\ getNumChildren(h) = 0
  /\ Dies(h)
  /\ returned' = returned \cup {h}
  /\ UNCHANGED <<ready, filled, lock, barrier>>

Zombies(h) == {c \in Pids : proc[c].parent = h /\ proc[c].stage = "zombie"}

SlotsOf(h, c) == {s \in Slot : childInfo[h][s].pid = c}

\* eraseChild takes the first slot with this pid.
SlotOf(h, c) == CHOOSE s \in SlotsOf(h, c) : \A r \in SlotsOf(h, c) : s <= r

\* MUTANT of eraseChild: the slots behind it are erased too.
eraseChildren(h, c) ==
  [s \in Slot |-> IF s >= SlotOf(h, c) THEN [childInfo[h][s] EXCEPT !.status = "DONE"] ELSE childInfo[h][s]]

\* MUTANT of eraseChild: the slot that is free for the next child.
eraseChildPid(h, c) == [childInfo[h] EXCEPT ![SlotOf(h, c)].pid = NoPid]

eraseChild(h, c) == [childInfo[h] EXCEPT ![SlotOf(h, c)].status = "DONE"]

\* waitpid(-1, nullptr, WNOHANG) reaps a child ...
Reap(h) ==
  /\ proc[h].stage = "reap"
  /\ \E c \in Zombies(h) :
       /\ SlotsOf(h, c) # {}
       /\ proc' = [proc EXCEPT ![c] = Gone]
       /\ childInfo' = [childInfo EXCEPT ![h] = eraseChild(h, c)]
  /\ UNCHANGED <<ready, filled, lock, barrier, returned>>

\* ... or finds none.
ReapNone(h) ==
  /\ proc[h].stage = "reap"
  /\ Zombies(h) = {}
  /\ Goto(h, "loop")
  /\ UNCHANGED <<childInfo, ready, filled, lock, barrier, returned>>

-----------------------------------------------------------------------------
(* The simulators *)

\* prctl(PR_SET_PDEATHSIG, SIGKILL)
Prctl(p) ==
  /\ proc[p].stage = "prctl"
  /\ proc' = [proc EXCEPT ![p].stage = "attach", ![p].armed = TRUE]
  /\ UNCHANGED <<childInfo, ready, filled, lock, barrier, returned>>

\* gm_attach, which panics if the segment is gone.
Attach(p) ==
  /\ proc[p].stage = "attach"
  /\ IF \E q \in Pids : Attached(q)
       THEN Goto(p, "isready") /\ UNCHANGED childInfo
       ELSE Dies(p)
  /\ UNCHANGED <<ready, filled, lock, barrier, returned>>

\* MUTANT of IsReady: process 0 always initialises.
IsReadyAnyway(p) ==
  /\ proc[p].stage = "isready"
  /\ Goto(p, IF proc[p].idx = 0 THEN "fill" ELSE "poll")
  /\ UNCHANGED <<childInfo, ready, filled, lock, barrier, returned>>

\* procIdx == 0 && !gm_isready()
IsReady(p) ==
  /\ proc[p].stage = "isready"
  /\ Goto(p, IF proc[p].idx = 0 /\ ~ready THEN "fill" ELSE "poll")
  /\ UNCHANGED <<childInfo, ready, filled, lock, barrier, returned>>

\* SimInit allocates and fills the structures under a lock nobody else can see.
Fill(p) ==
  /\ proc[p].stage = "fill"
  /\ filled' = filled + 1
  /\ lead' = NoPhase
  /\ weave' = FALSE
  /\ Goto(p, "publish")
  /\ UNCHANGED <<childInfo, ready, lock, returned>>

\* gm_set_glob_ptr
Publish(p) ==
  /\ proc[p].stage = "publish"
  /\ ready' = TRUE
  /\ Goto(p, "run")
  /\ UNCHANGED <<childInfo, filled, lock, barrier, returned>>

\* while (!gm_isready()) usleep(1000);
Poll(p) ==
  /\ proc[p].stage = "poll"
  /\ ready
  /\ Goto(p, "run")
  /\ UNCHANGED <<childInfo, ready, filled, lock, barrier, returned>>

\* An analysis routine needs a lock of the segment ...
Call(p) ==
  /\ proc[p].stage = "run"
  /\ Goto(p, "lock")
  /\ UNCHANGED <<childInfo, ready, filled, lock, barrier, returned>>

Acquire(p) ==
  /\ proc[p].stage = "lock"
  /\ lock = NoPid
  /\ lock' = p
  /\ Goto(p, "cs")
  /\ UNCHANGED <<childInfo, ready, filled, barrier, returned>>

\* ... and gives it back.
Release(p) ==
  /\ proc[p].stage = "cs"
  /\ lock' = NoPid
  /\ Goto(p, "run")
  /\ UNCHANGED <<childInfo, ready, filled, barrier, returned>>

\* fastForward: a phase of the program ends, and weave is called.
EndPhase(p) ==
  /\ proc[p].stage = "run"
  /\ lead' = [lead EXCEPT ![proc[p].idx] = @ + 1]
  /\ Goto(p, "gate")
  /\ UNCHANGED <<childInfo, ready, filled, lock, weave, returned>>

AheadOfGlobal(p) == lead[proc[p].idx] > 0

\* UpdateGlobalPhase, called in the first loop of weave, finds all phases equal ...
ScanPhases(p) ==
  /\ proc[p].stage = "gate"
  /\ AheadOfGlobal(p)
  /\ \A c \in Cores : lead[c] = lead[0]
  /\ Goto(p, "update")
  /\ UNCHANGED <<childInfo, ready, filled, lock, barrier, returned>>

\* ... and publishes phase[0], which may have moved on since.
UpdateGlobalPhase(p) ==
  /\ proc[p].stage = "update"
  /\ lead' = [c \in Cores |-> lead[c] - lead[0]]
  /\ weave' = TRUE
  /\ Goto(p, "gate")
  /\ UNCHANGED <<childInfo, ready, filled, lock, returned>>

PassGate(p) ==
  /\ proc[p].stage = "gate"
  /\ ~AheadOfGlobal(p)
  /\ Goto(p, "report")
  /\ UNCHANGED <<childInfo, ready, filled, lock, barrier, returned>>

\* The second loop of weave: process 0 reports and clears the flag ...
ClearWeave(p) ==
  /\ proc[p].stage = "report"
  /\ weave
  /\ proc[p].idx = 0
  /\ weave' = FALSE
  /\ UNCHANGED <<proc, childInfo, ready, filled, lock, lead, returned>>

\* ... and everybody waits until it is clear.
LeaveWeave(p) ==
  /\ proc[p].stage = "report"
  /\ ~weave
  /\ Goto(p, "run")
  /\ UNCHANGED <<childInfo, ready, filled, lock, barrier, returned>>

\* The program executes another one in the same process, where the simulator
\* starts over.
Reexec(p) ==
  /\ proc[p].stage = "run"
  /\ Goto(p, "prctl")
  /\ UNCHANGED <<childInfo, ready, filled, lock, barrier, returned>>

\* The program ends; Fini.
Finish(p) ==
  /\ proc[p].stage = "run"
  /\ Dies(p)
  /\ UNCHANGED <<ready, filled, lock, barrier, returned>>

-----------------------------------------------------------------------------
\* The signal a simulator asked for, once its parent has ended.
ParentDied(p) ==
  /\ IsSim(p)
  /\ proc[p].armed
  /\ ~ParentAlive(p)
  /\ Dies(p)
  /\ UNCHANGED <<ready, filled, lock, barrier, returned>>

\* A process may be killed at any time, and a lock it holds stays taken.
Killed(p) ==
  /\ p \in Mortal
  /\ Alive(p)
  /\ Dies(p)
  /\ UNCHANGED <<ready, filled, lock, barrier, returned>>

HarnessStep(h) ==
  \/ Fork(h) \/ Launched(h) \/ Loop(h) \/ Return(h) \/ Reap(h) \/ ReapNone(h)

SimStep(p) ==
  \/ Prctl(p) \/ Attach(p) \/ IsReady(p) \/ Fill(p) \/ Publish(p) \/ Poll(p)
  \/ Acquire(p) \/ Release(p) \/ ParentDied(p)
  \/ ScanPhases(p) \/ UpdateGlobalPhase(p) \/ PassGate(p) \/ ClearWeave(p) \/ LeaveWeave(p)

Next ==
  \E p \in Pids :
    \/ HarnessStep(p) \/ ForkFails(p)
    \/ Exec(p) \/ ExecFails(p)
    \/ SimStep(p) \/ Call(p) \/ EndPhase(p) \/ Reexec(p) \/ Finish(p)
    \/ Killed(p)

Spec == Init /\ [][Next]_vars

\* Processes keep executing and exec returns one way or the other.  A program
\* that always gets back from the simulator, from weave in particular, ends;
\* nothing says that it does get back.
Fairness ==
  \A p \in Pids :
    /\ WF_vars(HarnessStep(p))
    /\ WF_vars(SimStep(p))
    /\ WF_vars(Exec(p) \/ ExecFails(p))
    /\ SF_vars(Finish(p))

FairSpec == Spec /\ Fairness

-----------------------------------------------------------------------------
(* Properties *)

TypeOK ==
  /\ proc \in [Pids -> Process]
  /\ childInfo \in [Pids -> [Slot -> Entry]]
  /\ ready \in BOOLEAN
  /\ filled \in Nat
  /\ lock \in Pids \cup {NoPid}
  /\ lead \in [Cores -> Int]
  /\ weave \in BOOLEAN
  /\ returned \subseteq Pids

\* The shared structures are initialised once, before any process uses them,
\* although only process 0 does it, without telling anybody when it starts, and
\* although a program may execute another one in process 0 again.
UsesInitialised ==
  /\ filled <= 1
  /\ \A p \in Pids : proc[p].stage \in UserStages => filled = 1

\* Neither the assertion nor the panic of eraseChild (src/epb.cpp:146, 151) is
\* ever reached: whoever a harness reaps is in its table, running, in copies of
\* the table too.
EraseFindsChild ==
  \A h \in Pids : \A c \in Zombies(h) :
    IsHarness(h) => /\ SlotsOf(h, c) # {}
                    /\ childInfo[h][SlotOf(h, c)].status = "RUNNING"

\* A harness whose main returns leaves no children behind, who would be killed
\* or could not attach any more.
NoOrphans ==
  \A p \in Pids : Alive(p) => proc[p].parent \notin returned

\* Core c has a simulator, or one on its way from fork to exec.
LiveSim(c) == \E p \in Pids : proc[p].idx = c /\ (IsSim(p) \/ proc[p].stage = "forked")

\* The harness ends, unless for ever: what lies behind its table looks like a
\* running child; or process 0 has died before it published; or a process has
\* died with a lock in its hands; or a child that could not exec, a harness
\* itself now, waits for children that are not its own; or a program waits in
\* weave for the phase of a core whose program has ended or was killed; or it
\* waits there for a flag that process 0 does not clear, having gone, or having
\* left weave before the flag was set a second time.
HarnessEnds ==
  \/ <>~Alive(Main)
  \/ <>[](\E s \in Slot \ Cores : childInfo[Main][s].status = "RUNNING")
  \/ <>[](~ready /\ ~LiveSim(0))
  \/ <>[](lock # NoPid /\ ~Alive(lock))
  \/ <>[](\E p \in Pids \ {Main} : IsHarness(p) /\ getNumChildren(p) > 0)
  \/ <>[](\E p \in Pids, c \in Cores : proc[p].stage = "gate" /\ ~LiveSim(c))
  \/ <>[](weave /\ \E p \in Pids : proc[p].stage = "report" /\ proc[p].idx # 0)

-----------------------------------------------------------------------------
(* What a message says and a child that cannot exec does not do *)

\* "Could not exec, killing child" (src/epb.cpp:97 and 137): a core has one
\* simulator process, which changes the core's private state without a lock.
OneSimPerCore ==
  \A p, q \in Pids : IsSim(p) /\ IsSim(q) /\ p # q => proc[p].idx # proc[q].idx
=============================================================================
