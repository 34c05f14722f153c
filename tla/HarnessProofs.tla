---------------------------- MODULE HarnessProofs ----------------------------
(***************************************************************************)
(* Proofs about Harness, for every number of simulators, every size of the *)
(* slot table and every set of processes that may be killed.               *)
(***************************************************************************)
EXTENDS Harness, FiniteSetTheorems, TLAPS

\* The numbers; how many pids there are does not matter.
LEMMA Sizes ==
  /\ numProcs \in Nat /\ numProcs > 0 /\ Slots \in Nat /\ numProcs <= Slots
  /\ Slot = 0 .. Slots - 1
  /\ Pids \subseteq Nat /\ NoPid \notin Pids
BY HarnessAssumption DEF Slot, Pids, NoPid

Ended == {"zombie", "gone"}

\* A harness that forks, or is about to start over as one, has slots left.
IndexOK ==
  \A p \in Pids : proc[p].stage = "forked" => proc[p].idx < numProcs

\* Who has children is a harness, or was one.
ParentsOK ==
  \A c \in Pids :
    proc[c].parent # NoPid => proc[proc[c].parent].stage \in HarnessStages \cup Ended

\* The pids in the tables, copies included, are of processes that exist or did.
TablesOld ==
  \A h \in Pids : \A s \in Slot :
    childInfo[h][s].pid # NoPid => proc[childInfo[h][s].pid].stage # "none"

\* A harness's table has its children, who run for all it knows.
ChildrenKnown ==
  \A h \in Pids : IsHarness(h) =>
    \A c \in Pids : proc[c].parent = h =>
      /\ \E s \in Slot : childInfo[h][s].pid = c
      /\ \A s \in Slot : childInfo[h][s].pid = c => childInfo[h][s].status = "RUNNING"

\* The slots of the children still to launch name nobody.
SlotsLeft ==
  \A h \in Pids : proc[h].stage \in {"forked", "launch"} =>
    \A s \in Slot : s >= proc[h].idx => childInfo[h][s].pid = NoPid

ReturnedEnded == \A h \in returned : proc[h].stage \in Ended

FamilyInv ==
  /\ IndexOK /\ ParentsOK /\ TablesOld /\ ChildrenKnown /\ SlotsLeft
  /\ ReturnedEnded /\ NoOrphans

\* At most one process is, or may become, the simulator of core 0.
OneFirst ==
  \A p, q \in Pids : Alive(p) /\ Alive(q) /\ proc[p].idx = 0 /\ proc[q].idx = 0 => p = q

\* Until it has published, the structures have been filled exactly if it is
\* about to publish.
FirstFills ==
  /\ filled \in 0 .. 1
  /\ ready => filled = 1
  /\ \A p \in Pids : Alive(p) /\ proc[p].idx = 0 /\ ~ready =>
       filled = IF proc[p].stage = "publish" THEN 1 ELSE 0
  /\ \A p \in Pids : proc[p].stage \in {"fill", "publish"} => proc[p].idx = 0 /\ ~ready

\* Programs run once the structures are published.
RunsReady == \A p \in Pids : proc[p].stage \in UserStages => ready

BootInv == OneFirst /\ FirstFills /\ RunsReady

HInv == TypeOK /\ FamilyInv /\ BootInv

\* The stages of the three kinds of processes.
LEMMA Kinds ==
  /\ HarnessStages \subseteq Stages /\ SimStages \subseteq Stages
  /\ {"none", "forked", "zombie", "gone"} \subseteq Stages
  /\ \A stage \in HarnessStages : stage \notin SimStages \cup {"none", "forked", "zombie", "gone"}
  /\ UserStages \subseteq SimStages \ {"fill", "publish"}
  /\ \A stage \in SimStages : stage \notin {"none", "forked", "zombie", "gone"}
BY DEF HarnessStages, SimStages, UserStages, Stages

\* The phases and the flag.
BarrierTyped == lead \in [Cores -> Int] /\ weave \in BOOLEAN

LEMMA NoPhaseIs == NoPhase \in [Cores -> Int]
<1>1. \A c \in Cores : 0 \in Int
  OBVIOUS
<1>. QED BY <1>1 DEF NoPhase

LEMMA BarrierKept ==
  ASSUME HInv, UNCHANGED barrier
  PROVE  BarrierTyped'
BY DEF HInv, TypeOK, barrier, BarrierTyped

\* Processes and entries that stand for none.
LEMMA Blank ==
  /\ Nobody \in Process /\ Gone \in Process
  /\ Nobody.stage = "none" /\ Nobody.parent = NoPid /\ Nobody.idx = 0
  /\ Gone.stage = "gone" /\ Gone.parent = NoPid
  /\ NoChild \in Entry /\ NoChild.pid = NoPid
  /\ NoTable \in [Slot -> Entry] /\ \A s \in Slot : NoTable[s].pid = NoPid
<1>1. 0 \in 0 .. numProcs /\ {"none", "gone"} \subseteq Stages
  BY Sizes DEF Stages
<1>. QED BY <1>1 DEF Nobody, Gone, Process, NoChild, Entry, NoTable

-----------------------------------------------------------------------------
(* The initial state *)

LEMMA InitHInv == Init => HInv
<1>. SUFFICES ASSUME Init PROVE HInv
  OBVIOUS
<1>. DEFINE first == [Nobody EXCEPT !.stage = "launch"]
<1>1. /\ first \in Process /\ first.stage = "launch" /\ first.parent = NoPid /\ first.idx = 0
  BY Blank, Kinds DEF Nobody, Process, HarnessStages
<1>2. /\ proc = [p \in Pids |-> IF p = Main THEN first ELSE Nobody]
      /\ ready = FALSE /\ filled = 0 /\ lock = NoPid /\ returned = {}
      /\ lead = NoPhase /\ weave = FALSE
  BY DEF Init, NewSegment, BarrierInit
<1>. HIDE DEF first
<1>3. proc \in [Pids -> Process]
  BY <1>1, <1>2, Blank
<1>4. /\ \A p \in Pids : proc[p].parent = NoPid
      /\ \A p \in Pids : p = Main => proc[p].stage = "launch"
      /\ \A p \in Pids : p # Main => proc[p].stage = "none"
  BY <1>1, <1>2, Blank
<1>5. /\ childInfo \in [Pids -> [Slot -> Entry]]
      /\ \A h \in Pids : \A s \in Slot : childInfo[h][s].pid = NoPid
  <2>1. PICK running \in SUBSET (Slot \ Cores) :
          childInfo = [p \in Pids |->
            IF p = Main
              THEN [s \in Slot |-> [NoChild EXCEPT !.status = IF s \in running THEN "RUNNING" ELSE "INVALID"]]
              ELSE NoTable]
    BY DEF Init
  <2>2. \A status \in {"RUNNING", "INVALID"} :
          [NoChild EXCEPT !.status = status] \in Entry /\ [NoChild EXCEPT !.status = status].pid = NoPid
    BY Blank DEF NoChild, Entry
  <2>. QED BY <2>1, <2>2, Blank
<1>6. TypeOK
  <2>1. lead \in [Cores -> Int] /\ weave \in BOOLEAN
    BY <1>2, NoPhaseIs
  <2>. QED BY <1>2, <1>3, <1>5, <2>1 DEF TypeOK
<1>7. FamilyInv
  <2>1. IndexOK /\ ReturnedEnded /\ NoOrphans
    BY <1>2, <1>4 DEF IndexOK, ReturnedEnded, NoOrphans
  <2>2. ParentsOK /\ TablesOld /\ SlotsLeft
    BY <1>4, <1>5 DEF ParentsOK, TablesOld, SlotsLeft
  <2>3. ChildrenKnown
    BY <1>4, Sizes DEF ChildrenKnown
  <2>. QED BY <2>1, <2>2, <2>3 DEF FamilyInv
<1>8. BootInv
  BY <1>2, <1>4 DEF BootInv, OneFirst, FirstFills, RunsReady, Alive, UserStages
<1>. QED BY <1>6, <1>7, <1>8 DEF HInv

-----------------------------------------------------------------------------
(* What the steps do to processes and tables *)

\* A process goes to another stage, and keeps its parent and its core.
Moves(p, stage) ==
  /\ proc' \in [Pids -> Process]
  /\ proc'[p].stage = stage
  /\ \A q \in Pids : proc'[q].parent = proc[q].parent /\ proc'[q].idx = proc[q].idx
  /\ \A q \in Pids \ {p} : proc'[q] = proc[q]

LEMMA GotoMoves ==
  ASSUME TypeOK, NEW p \in Pids, NEW stage \in Stages, Goto(p, stage)
  PROVE  Moves(p, stage)
BY DEF TypeOK, Goto, Process, Moves

LEMMA PrctlMoves ==
  ASSUME TypeOK, NEW p \in Pids, Prctl(p)
  PROVE  Moves(p, "attach")
<1>. DEFINE now == [proc[p] EXCEPT !.stage = "attach", !.armed = TRUE]
<1>1. /\ proc \in [Pids -> Process]
      /\ now \in Process /\ now.stage = "attach"
      /\ now.parent = proc[p].parent /\ now.idx = proc[p].idx
  BY Kinds DEF TypeOK, Process, SimStages, UserStages
<1>2. proc' = [proc EXCEPT ![p] = now]
  BY <1>1 DEF Prctl
<1>. QED BY <1>1, <1>2 DEF Moves

\* A process ends: it is not alive any more, the others are what they were but
\* for its own zombies, and it keeps its parent as long as it is a zombie.
LEMMA DiesIs ==
  ASSUME TypeOK, NEW p \in Pids, Dies(p)
  PROVE  /\ proc' \in [Pids -> Process]
         /\ childInfo' \in [Pids -> [Slot -> Entry]]
         /\ proc'[p].stage \in Ended
         /\ proc'[p].parent \in {proc[p].parent, NoPid}
         /\ \A q \in Pids \ {p} :
              \/ proc'[q] = proc[q]
              \/ proc[q].parent = p /\ proc[q].stage = "zombie" /\ proc'[q] = Gone
         /\ \A s \in Slot : childInfo'[p][s].pid = NoPid
         /\ \A q \in Pids \ {p} : childInfo'[q] = childInfo[q]
<1>1. proc' = AfterDeath(p) /\ childInfo' = [childInfo EXCEPT ![p] = NoTable]
  BY DEF Dies
<1>2. proc \in [Pids -> Process] /\ childInfo \in [Pids -> [Slot -> Entry]]
  BY DEF TypeOK
<1>. DEFINE zombie == [proc[p] EXCEPT !.stage = "zombie"]
<1>3. zombie \in Process /\ zombie.stage = "zombie" /\ zombie.parent = proc[p].parent
  BY <1>2, Kinds DEF Process
<1>. HIDE DEF zombie
<1>4. proc'[p] = zombie \/ proc'[p] = Gone
  BY <1>1 DEF AfterDeath, zombie
<1>5. \A q \in Pids \ {p} :
        \/ proc'[q] = proc[q]
        \/ proc[q].parent = p /\ proc[q].stage = "zombie" /\ proc'[q] = Gone
  BY <1>1 DEF AfterDeath
<1>6. proc' \in [Pids -> Process]
  <2>1. proc' = [q \in Pids |-> proc'[q]]
    BY <1>1 DEF AfterDeath
  <2>2. \A q \in Pids : proc'[q] \in Process
    BY <1>2, <1>3, <1>4, <1>5, Blank
  <2>. QED BY <2>1, <2>2
<1>7. proc'[p].stage \in Ended /\ proc'[p].parent \in {proc[p].parent, NoPid}
  BY <1>3, <1>4, Blank DEF Ended
<1>8. /\ childInfo' \in [Pids -> [Slot -> Entry]]
      /\ \A s \in Slot : childInfo'[p][s].pid = NoPid
      /\ \A q \in Pids \ {p} : childInfo'[q] = childInfo[q]
  BY <1>1, <1>2, Blank
<1>. QED BY <1>5, <1>6, <1>7, <1>8

-----------------------------------------------------------------------------
(* Families *)

\* A process that is not a harness, or stays in the launching loop or behind
\* it, goes to another stage.
LEMMA MovesFamily ==
  ASSUME HInv, NEW p \in Pids, NEW stage \in Stages, Moves(p, stage),
         \/ proc[p].stage \in SimStages /\ stage \in SimStages
         \/ proc[p].stage = "forked" /\ stage \in SimStages
         \/ proc[p].stage \in HarnessStages /\ stage \in {"loop", "reap"},
         UNCHANGED returned,
         \/ UNCHANGED childInfo
         \/ stage \in SimStages /\ childInfo' = [childInfo EXCEPT ![p] = NoTable]
  PROVE  FamilyInv'
<1>1. /\ proc'[p].stage = stage
      /\ \A q \in Pids : proc'[q].parent = proc[q].parent /\ proc'[q].idx = proc[q].idx
      /\ \A q \in Pids \ {p} : proc'[q] = proc[q]
  BY DEF Moves
<1>2. /\ stage \in SimStages \cup {"loop", "reap"} /\ stage \notin Ended \cup {"none", "forked", "launch"}
      /\ proc[p].stage \notin Ended \cup {"none"}
      /\ stage \in HarnessStages <=> proc[p].stage \in HarnessStages
  BY DEF SimStages, UserStages, HarnessStages, Ended
<1>3. /\ \A h \in Pids : \A s \in Slot :
           childInfo'[h][s].pid # NoPid => childInfo'[h][s] = childInfo[h][s]
      /\ \A h \in Pids : proc'[h].stage \in HarnessStages \cup {"forked"} =>
           childInfo'[h] = childInfo[h]
  <2>1. CASE UNCHANGED childInfo
    BY <2>1
  <2>2. CASE stage \in SimStages /\ childInfo' = [childInfo EXCEPT ![p] = NoTable]
    <3>1. stage \notin HarnessStages \cup {"forked"}
      BY <2>2 DEF SimStages, UserStages, HarnessStages
    <3>2. childInfo \in [Pids -> [Slot -> Entry]]
      BY DEF HInv, TypeOK
    <3>3. childInfo'[p] = NoTable /\ \A h \in Pids \ {p} : childInfo'[h] = childInfo[h]
      BY <2>2, <3>2
    <3>. QED BY <1>1, <3>1, <3>3, Blank
  <2>. QED BY <2>1, <2>2
<1>4. IndexOK'
  BY <1>1, <1>2 DEF HInv, FamilyInv, IndexOK
<1>5. ParentsOK'
  <2>1. \A c \in Pids : proc[c].parent # NoPid => proc[c].parent \in Pids
    BY DEF HInv, TypeOK, Process
  <2>. QED BY <1>1, <1>2, <2>1 DEF HInv, FamilyInv, ParentsOK
<1>6. TablesOld'
  <2>1. \A h \in Pids : \A s \in Slot :
          childInfo[h][s].pid # NoPid => childInfo[h][s].pid \in Pids
    BY DEF HInv, TypeOK, Entry
  <2>. QED BY <1>1, <1>2, <1>3, <2>1 DEF HInv, FamilyInv, TablesOld
<1>7. ChildrenKnown'
  BY <1>1, <1>2, <1>3 DEF HInv, FamilyInv, ChildrenKnown, IsHarness
<1>8. SlotsLeft'
  BY <1>1, <1>2, <1>3, Kinds DEF HInv, FamilyInv, SlotsLeft, HarnessStages
<1>9. ReturnedEnded'
  <2>1. returned \subseteq Pids
    BY DEF HInv, TypeOK
  <2>. QED BY <1>1, <1>2, <2>1 DEF HInv, FamilyInv, ReturnedEnded
<1>10. NoOrphans'
  BY <1>1, <1>2 DEF HInv, FamilyInv, NoOrphans, Alive, Ended
<1>. QED BY <1>4, <1>5, <1>6, <1>7, <1>8, <1>9, <1>10 DEF FamilyInv

\* A process ends; if its main returned, it had no children.
LEMMA DiesFamily ==
  ASSUME HInv, NEW p \in Pids, Dies(p), Alive(p),
         \/ UNCHANGED returned
         \/ /\ returned' = returned \cup {p}
            /\ \A c \in Pids : proc[c].parent # p
  PROVE  FamilyInv'
<1>1. /\ proc'[p].stage \in Ended
      /\ proc'[p].parent \in {proc[p].parent, NoPid}
      /\ \A q \in Pids \ {p} :
           proc'[q] = proc[q] \/ (proc[q].stage = "zombie" /\ proc'[q] = Gone)
      /\ \A s \in Slot : childInfo'[p][s].pid = NoPid
      /\ \A q \in Pids \ {p} : childInfo'[q] = childInfo[q]
  BY DiesIs DEF HInv
<1>2. /\ Gone.stage = "gone" /\ Gone.parent = NoPid
      /\ \A stage \in HarnessStages : stage \notin Ended \cup {"none", "forked"}
  BY Blank, Kinds DEF Ended
<1>3. /\ \A q \in Pids : proc'[q].stage \notin Ended => proc'[q] = proc[q] /\ q # p
      /\ \A q \in Pids : proc'[q].parent \in {proc[q].parent, NoPid}
      /\ \A q \in Pids : proc[q].stage \in Ended => proc'[q].stage \in Ended
      /\ \A q \in Pids : proc'[q].stage = "none" => proc[q].stage = "none"
  BY <1>1, <1>2 DEF Ended
<1>4. IndexOK'
  BY <1>3 DEF HInv, FamilyInv, IndexOK, Ended
<1>5. ParentsOK'
  <2>1. \A c \in Pids : proc[c].parent # NoPid => proc[c].parent \in Pids
    BY DEF HInv, TypeOK, Process
  <2>. QED BY <1>3, <2>1 DEF HInv, FamilyInv, ParentsOK
<1>6. TablesOld'
  <2>1. \A h \in Pids : \A s \in Slot :
          childInfo[h][s].pid # NoPid => childInfo[h][s].pid \in Pids
    BY DEF HInv, TypeOK, Entry
  <2>. QED BY <1>1, <1>3, <2>1 DEF HInv, FamilyInv, TablesOld
<1>7. ChildrenKnown'
  <2>1. ASSUME NEW h \in Pids, IsHarness(h)' PROVE IsHarness(h) /\ childInfo'[h] = childInfo[h]
    BY <1>1, <1>2, <1>3, <2>1 DEF IsHarness
  <2>2. \A c, h \in Pids : proc'[c].parent = h => proc[c].parent = h
    BY <1>3, Sizes
  <2>. QED BY <2>1, <2>2 DEF HInv, FamilyInv, ChildrenKnown
<1>8. SlotsLeft'
  BY <1>1, <1>3 DEF HInv, FamilyInv, SlotsLeft, Ended
<1>9. ReturnedEnded'
  <2>1. returned \subseteq Pids
    BY DEF HInv, TypeOK
  <2>. QED BY <1>1, <1>3, <2>1 DEF HInv, FamilyInv, ReturnedEnded
<1>10. NoOrphans'
  <2>1. ASSUME NEW q \in Pids, Alive(q)' PROVE proc'[q] = proc[q] /\ Alive(q)
    BY <1>3, <2>1 DEF Alive, Ended
  <2>. QED BY <2>1 DEF HInv, FamilyInv, NoOrphans
<1>. QED BY <1>4, <1>5, <1>6, <1>7, <1>8, <1>9, <1>10 DEF FamilyInv

\* fork takes a process that no table names and nobody has for a parent.
LEMMA ForkFamily ==
  ASSUME HInv, NEW h \in Pids, Fork(h)
  PROVE  TypeOK' /\ FamilyInv' /\
         \E c \in Pids :
           /\ proc[c] = Nobody /\ c # h
           /\ proc[h].stage = "launch" /\ proc'[h].stage = "launch"
           /\ proc'[h].idx = proc[h].idx + 1
           /\ proc'[c].stage = "forked" /\ proc'[c].idx = proc[h].idx
           /\ \A q \in Pids \ {h, c} : proc'[q] = proc[q]
<1>. DEFINE c == CHOOSE p \in Fresh : \A q \in Fresh : p <= q
            i == proc[h].idx
            child == [stage |-> "forked", parent |-> h, idx |-> i, armed |-> FALSE]
            mother == [proc[h] EXCEPT !.idx = i + 1]
            new == [pid |-> c, status |-> "RUNNING"]
            table == [childInfo[h] EXCEPT ![i] = new]
<1>1. c \in Fresh
  <2>1. Fresh \subseteq Nat /\ Fresh # {}
    BY Sizes DEF Fork, Fresh
  <2>2. \E p \in Fresh : \A q \in Fresh : ~(<<q, p>> \in OpToRel(<, Nat))
    BY <2>1, NatLessThanWellFounded, WFMin
  <2>3. PICK p \in Fresh : \A q \in Fresh : ~(<<q, p>> \in OpToRel(<, Nat))
    BY <2>2
  <2>4. \A q \in Fresh : p <= q
    <3>. TAKE q \in Fresh
    <3>1. ~(<<q, p>> \in {ss \in Nat \X Nat : ss[1] < ss[2]})
      BY <2>3 DEF OpToRel
    <3>2. <<q, p>> \in Nat \X Nat
      BY <2>1
    <3>3. ~(q < p)
      BY <3>1, <3>2
    <3>. QED BY <2>1, <3>3
  <2>. QED BY <2>4
<1>2. /\ proc \in [Pids -> Process] /\ childInfo \in [Pids -> [Slot -> Entry]]
      /\ c \in Pids /\ proc[c] = Nobody /\ c # NoPid
  BY <1>1, Sizes DEF Fresh, HInv, TypeOK
<1>3. /\ proc[h].stage = "launch" /\ i \in 0 .. numProcs /\ i < numProcs /\ c # h
      /\ i + 1 \in 0 .. numProcs /\ i \in Slot
  BY <1>2, Sizes, Blank DEF Fork, MoreToLaunch, Process
<1>4. /\ child \in Process /\ mother \in Process /\ new \in Entry
      /\ mother.stage = "launch" /\ mother.parent = proc[h].parent /\ mother.idx = i + 1
  BY <1>2, <1>3, Kinds DEF Process, Entry
<1>5. table \in [Slot -> Entry] /\ table[i] = new /\ \A s \in Slot \ {i} : table[s] = childInfo[h][s]
  BY <1>2, <1>3, <1>4
<1>6. /\ proc' = [proc EXCEPT ![h] = mother, ![c] = child]
      /\ childInfo' = [childInfo EXCEPT ![h] = table, ![c] = childInfo[h]]
      /\ UNCHANGED <<ready, filled, lock, barrier, returned>>
  BY <1>2, <1>3 DEF Fork, Recorded
<1>. HIDE DEF c, child, mother, new, table
<1>7. /\ proc' \in [Pids -> Process] /\ proc'[h] = mother /\ proc'[c] = child
      /\ \A q \in Pids \ {h, c} : proc'[q] = proc[q]
      /\ childInfo' \in [Pids -> [Slot -> Entry]]
      /\ childInfo'[h] = table /\ childInfo'[c] = childInfo[h]
      /\ \A q \in Pids \ {h, c} : childInfo'[q] = childInfo[q]
  BY <1>2, <1>3, <1>4, <1>5, <1>6
<1>8. TypeOK'
  BY BarrierKept, <1>6, <1>7 DEF HInv, TypeOK, BarrierTyped
<1>9. /\ child.stage = "forked" /\ child.parent = h /\ child.idx = i
      /\ new.pid = c /\ new.status = "RUNNING"
      /\ proc[c].stage = "none" /\ proc[c].parent = NoPid
  BY <1>2, Blank DEF child, new
<1>10. /\ \A q \in Pids : proc[q].parent # NoPid => proc[q].parent \in Pids
       /\ \A q \in Pids : \A s \in Slot :
            childInfo[q][s].pid # NoPid => childInfo[q][s].pid \in Pids
       /\ \A q \in Pids : proc[q].idx \in Nat
  BY <1>2, Sizes DEF Process, Entry
\* Nobody has c for a parent, and no table names it.
<1>11. /\ \A q \in Pids : proc[q].parent # c
       /\ \A q \in Pids : \A s \in Slot : childInfo[q][s].pid # c
  <2>1. ASSUME NEW q \in Pids, proc[q].parent = c PROVE FALSE
    <3>1. "none" \in HarnessStages \cup Ended
      BY <1>2, <1>9, <2>1 DEF HInv, FamilyInv, ParentsOK
    <3>. QED BY <3>1 DEF HarnessStages, Ended
  <2>2. ASSUME NEW q \in Pids, NEW s \in Slot, childInfo[q][s].pid = c PROVE FALSE
    BY <1>2, <1>9, <2>2 DEF HInv, FamilyInv, TablesOld
  <2>. QED BY <2>1, <2>2
<1>12. IndexOK'
  BY <1>3, <1>4, <1>7, <1>9 DEF HInv, FamilyInv, IndexOK
<1>13. ParentsOK'
  <2>1. ASSUME NEW q \in Pids, proc'[q].parent # NoPid
        PROVE  /\ proc'[q].parent \in Pids \ {c}
               /\ proc[proc'[q].parent].stage \in HarnessStages \cup Ended
    <3>1. CASE q = c
      BY <1>3, <1>7, <1>9, <3>1 DEF HarnessStages
    <3>2. CASE q # c
      <4>1. proc'[q].parent = proc[q].parent
        BY <1>4, <1>7, <3>2
      <4>. QED BY <2>1, <1>10, <1>11, <4>1 DEF HInv, FamilyInv, ParentsOK
    <3>. QED BY <3>1, <3>2
  <2>2. \A q \in Pids \ {c} : proc'[q].stage = proc[q].stage
    BY <1>3, <1>4, <1>7
  <2>. QED BY <2>1, <2>2 DEF ParentsOK
<1>14. TablesOld'
  <2>1. \A q \in Pids : \A s \in Slot :
          \/ childInfo'[q][s].pid = c
          \/ childInfo'[q][s] = childInfo[q][s]
          \/ childInfo'[q][s] = childInfo[h][s]
    BY <1>5, <1>7, <1>9
  <2>2. \A q \in Pids : proc'[q].stage = proc[q].stage \/ proc'[q].stage = "forked"
    BY <1>3, <1>4, <1>7, <1>9
  <2>3. proc'[c].stage # "none"
    BY <1>7, <1>9
  <2>. QED BY <1>10, <2>1, <2>2, <2>3 DEF HInv, FamilyInv, TablesOld
<1>15. ChildrenKnown'
  <2>1. ASSUME NEW g \in Pids, IsHarness(g)', NEW q \in Pids, proc'[q].parent = g
        PROVE  /\ \E s \in Slot : childInfo'[g][s].pid = q
               /\ \A s \in Slot : childInfo'[g][s].pid = q => childInfo'[g][s].status = "RUNNING"
    <3>1. g # c
      BY <1>7, <1>9, <2>1 DEF IsHarness, HarnessStages
    <3>2. CASE q = c
      <4>1. g = h
        BY <1>7, <1>9, <2>1, <3>2
      <4>2. table[i].pid = q /\ \A s \in Slot : table[s].pid = q => s = i
        BY <1>3, <1>5, <1>9, <1>11, <3>2
      <4>. QED BY <1>3, <1>5, <1>7, <1>9, <4>1, <4>2
    <3>3. CASE q # c
      <4>1. proc[q].parent = g
        BY <1>4, <1>7, <2>1, <3>3
      <4>2. IsHarness(g)
        BY <1>3, <1>7, <2>1, <3>1 DEF IsHarness, HarnessStages
      <4>3. /\ \E s \in Slot : childInfo[g][s].pid = q
            /\ \A s \in Slot : childInfo[g][s].pid = q => childInfo[g][s].status = "RUNNING"
        BY <4>1, <4>2 DEF HInv, FamilyInv, ChildrenKnown
      <4>4. CASE g = h
        <5>1. childInfo[h][i].pid = NoPid
          BY <1>3, <1>10 DEF HInv, FamilyInv, SlotsLeft
        <5>2. PICK s \in Slot : childInfo[h][s].pid = q
          BY <4>3, <4>4
        <5>3. s # i /\ table[s].pid = q
          BY <1>5, <5>1, <5>2, Sizes
        <5>. QED BY <1>5, <1>7, <1>9, <3>3, <4>3, <4>4, <5>3
      <4>5. CASE g # h
        BY <1>7, <3>1, <4>3, <4>5
      <4>. QED BY <4>4, <4>5
    <3>. QED BY <3>2, <3>3
  <2>. QED BY <2>1 DEF ChildrenKnown
<1>8a. SlotsLeft'
  <2>1. \A s \in Slot : s >= i => childInfo[h][s].pid = NoPid
    BY <1>3 DEF HInv, FamilyInv, SlotsLeft
  <2>2. \A s \in Slot : s >= i + 1 => s >= i /\ s # i
    BY <1>3, Sizes
  <2>. QED BY <1>4, <1>5, <1>7, <1>9, <2>1, <2>2 DEF HInv, FamilyInv, SlotsLeft
<1>17. ReturnedEnded' /\ NoOrphans'
  <2>1. h \notin returned
    BY <1>3 DEF HInv, FamilyInv, ReturnedEnded, Ended
  <2>2. ReturnedEnded'
    <3>1. returned \subseteq Pids /\ c \notin returned
      BY <1>9 DEF HInv, TypeOK, FamilyInv, ReturnedEnded, Ended
    <3>. QED BY <1>6, <1>7, <2>1, <3>1 DEF HInv, FamilyInv, ReturnedEnded
  <2>3. ASSUME NEW q \in Pids, Alive(q)' PROVE proc'[q].parent \notin returned
    <3>1. CASE q = c
      BY <1>7, <1>9, <2>1, <3>1
    <3>2. CASE q # c
      <4>1. Alive(q) /\ proc'[q].parent = proc[q].parent
        BY <1>3, <1>4, <1>7, <2>3, <3>2 DEF Alive
      <4>. QED BY <4>1 DEF HInv, FamilyInv, NoOrphans
    <3>. QED BY <3>1, <3>2
  <2>. QED BY <1>6, <2>2, <2>3 DEF NoOrphans
<1>18. FamilyInv'
  BY <1>12, <1>13, <1>14, <1>15, <1>8a, <1>17 DEF FamilyInv
<1>19. /\ proc[c] = Nobody /\ c # h /\ proc'[h].stage = "launch"
       /\ proc'[h].idx = proc[h].idx + 1
       /\ proc'[c].stage = "forked" /\ proc'[c].idx = proc[h].idx
       /\ \A q \in Pids \ {h, c} : proc'[q] = proc[q]
  BY <1>2, <1>3, <1>4, <1>7, <1>9
<1>. QED BY <1>2, <1>3, <1>8, <1>18, <1>19

\* A child that could not exec is a harness without children, whose table
\* lacks only the slots it has not launched.
LEMMA ExecFailsFamily ==
  ASSUME HInv, NEW c \in Pids, ExecFails(c)
  PROVE  /\ TypeOK' /\ FamilyInv'
         /\ proc[c].stage = "forked" /\ proc'[c].stage = "launch"
         /\ proc'[c].idx = proc[c].idx + 1
         /\ \A q \in Pids \ {c} : proc'[q] = proc[q]
<1>. DEFINE now == [proc[c] EXCEPT !.stage = "launch", !.idx = proc[c].idx + 1]
<1>1. /\ proc \in [Pids -> Process] /\ proc[c].stage = "forked"
      /\ proc[c].idx + 1 \in 0 .. numProcs /\ proc[c].idx \in Nat
  BY Sizes DEF ExecFails, HInv, TypeOK, FamilyInv, IndexOK, Process
<1>2. /\ now \in Process /\ now.stage = "launch" /\ now.idx = proc[c].idx + 1
      /\ now.parent = proc[c].parent
  BY <1>1, Kinds DEF Process, HarnessStages
<1>3. proc' = [proc EXCEPT ![c] = now] /\ UNCHANGED <<childInfo, ready, filled, lock, barrier, returned>>
  BY <1>1 DEF ExecFails
<1>. HIDE DEF now
<1>4. /\ proc' \in [Pids -> Process] /\ proc'[c] = now
      /\ \A q \in Pids \ {c} : proc'[q] = proc[q]
      /\ \A q \in Pids : proc'[q].parent = proc[q].parent
  BY <1>1, <1>2, <1>3
<1>5. TypeOK'
  BY BarrierKept, <1>3, <1>4 DEF HInv, TypeOK, BarrierTyped
<1>6. \A q \in Pids : proc[q].parent # c
  <2>1. ASSUME NEW q \in Pids, proc[q].parent = c PROVE FALSE
    <3>1. "forked" \in HarnessStages \cup Ended
      BY <1>1, <2>1, Sizes DEF HInv, FamilyInv, ParentsOK
    <3>. QED BY <3>1 DEF HarnessStages, Ended
  <2>. QED BY <2>1
<1>7. IndexOK' /\ ParentsOK'
  <2>1. \A q \in Pids : proc[q].parent # NoPid => proc[q].parent \in Pids
    BY <1>1 DEF Process
  <2>. QED BY <1>2, <1>4, <1>6, <2>1 DEF HInv, FamilyInv, IndexOK, ParentsOK
<1>8. TablesOld'
  <2>1. \A h \in Pids : \A s \in Slot :
          childInfo[h][s].pid # NoPid => childInfo[h][s].pid \in Pids
    BY DEF HInv, TypeOK, Entry
  <2>. QED BY <1>2, <1>3, <1>4, <2>1 DEF HInv, FamilyInv, TablesOld
<1>9. ChildrenKnown'
  <2>1. ASSUME NEW h \in Pids, IsHarness(h)', NEW q \in Pids, proc'[q].parent = h
        PROVE  IsHarness(h) /\ proc[q].parent = h
    BY <1>4, <1>6, <2>1 DEF IsHarness
  <2>. QED BY <1>3, <2>1 DEF HInv, FamilyInv, ChildrenKnown
<1>10. SlotsLeft'
  <2>1. \A s \in Slot : s >= now.idx => childInfo[c][s].pid = NoPid
    <3>1. \A s \in Slot : s >= now.idx => s >= proc[c].idx
      BY <1>1, <1>2, Sizes
    <3>. QED BY <1>1, <3>1 DEF HInv, FamilyInv, SlotsLeft
  <2>. QED BY <1>3, <1>4, <2>1 DEF HInv, FamilyInv, SlotsLeft
<1>11. ReturnedEnded' /\ NoOrphans'
  <2>1. c \notin returned /\ returned \subseteq Pids
    BY <1>1 DEF HInv, TypeOK, FamilyInv, ReturnedEnded, Ended
  <2>2. \A q \in Pids : Alive(q)' => Alive(q)
    BY <1>1, <1>4 DEF Alive
  <2>. QED BY <1>3, <1>4, <2>1, <2>2 DEF HInv, FamilyInv, ReturnedEnded, NoOrphans
<1>12. FamilyInv'
  BY <1>7, <1>8, <1>9, <1>10, <1>11 DEF FamilyInv
<1>. QED BY <1>1, <1>2, <1>4, <1>5, <1>12

\* The slot eraseChild works on names the child, whatever else the table holds.
LEMMA SlotOfIs ==
  ASSUME TypeOK, NEW h \in Pids, NEW c \in Pids, SlotsOf(h, c) # {}
  PROVE  SlotOf(h, c) \in Slot /\ childInfo[h][SlotOf(h, c)].pid = c
<1>. DEFINE S == SlotsOf(h, c)
<1>1. S \subseteq Nat
  BY Sizes DEF SlotsOf
<1>2. PICK s \in S : \A r \in S : ~(<<r, s>> \in OpToRel(<, Nat))
  BY <1>1, NatLessThanWellFounded, WFMin
<1>3. \A r \in S : s <= r
  <2>. TAKE r \in S
  <2>1. ~(<<r, s>> \in {ss \in Nat \X Nat : ss[1] < ss[2]})
    BY <1>2 DEF OpToRel
  <2>2. <<r, s>> \in Nat \X Nat
    BY <1>1
  <2>3. ~(r < s)
    BY <2>1, <2>2
  <2>. QED BY <1>1, <2>3
<1>4. SlotOf(h, c) \in S
  BY <1>3 DEF SlotOf
<1>. QED BY <1>4 DEF SlotsOf

\* waitpid takes a zombie off its parent, and off the table.
LEMMA ReapFamily ==
  ASSUME HInv, NEW h \in Pids, Reap(h)
  PROVE  /\ TypeOK' /\ FamilyInv'
         /\ \E c \in Pids :
              /\ proc[c].stage = "zombie" /\ proc'[c] = Gone
              /\ \A q \in Pids \ {c} : proc'[q] = proc[q]
         /\ UNCHANGED <<ready, filled>>
<1>1. PICK c \in Zombies(h) :
        /\ SlotsOf(h, c) # {}
        /\ proc' = [proc EXCEPT ![c] = Gone]
        /\ childInfo' = [childInfo EXCEPT ![h] = eraseChild(h, c)]
  BY DEF Reap
<1>2. /\ c \in Pids /\ proc[c].parent = h /\ proc[c].stage = "zombie"
      /\ proc[h].stage = "reap" /\ UNCHANGED <<ready, filled, lock, barrier, returned>>
  BY DEF Zombies, Reap
<1>. DEFINE k == SlotOf(h, c)
            done == [childInfo[h][k] EXCEPT !.status = "DONE"]
<1>3. k \in Slot /\ childInfo[h][k].pid = c
  BY <1>1, <1>2, SlotOfIs DEF HInv
<1>4. /\ proc \in [Pids -> Process] /\ childInfo \in [Pids -> [Slot -> Entry]]
      /\ done \in Entry /\ done.pid = c
  <2>1. proc \in [Pids -> Process] /\ childInfo \in [Pids -> [Slot -> Entry]]
    BY DEF HInv, TypeOK
  <2>2. childInfo[h][k] \in Entry
    BY <1>3, <2>1
  <2>. QED BY <1>3, <2>1, <2>2 DEF Entry
<1>5. eraseChild(h, c) = [childInfo[h] EXCEPT ![k] = done]
  BY <1>3, <1>4 DEF eraseChild
<1>. HIDE DEF k, done
<1>6. /\ proc' \in [Pids -> Process] /\ proc'[c] = Gone
      /\ \A q \in Pids \ {c} : proc'[q] = proc[q]
      /\ childInfo' \in [Pids -> [Slot -> Entry]]
      /\ childInfo'[h][k] = done
      /\ \A s \in Slot \ {k} : childInfo'[h][s] = childInfo[h][s]
      /\ \A g \in Pids \ {h} : childInfo'[g] = childInfo[g]
  BY <1>1, <1>2, <1>3, <1>4, <1>5, Blank
<1>7. TypeOK'
  BY BarrierKept, <1>2, <1>6 DEF HInv, TypeOK, BarrierTyped
<1>8. /\ \A g \in Pids : \A s \in Slot :
           /\ childInfo'[g][s].pid = childInfo[g][s].pid
           /\ childInfo'[g][s] = childInfo[g][s] \/ (g = h /\ childInfo[g][s].pid = c)
      /\ Gone.stage = "gone" /\ Gone.parent = NoPid
  BY <1>3, <1>4, <1>6, Blank
<1>8a. /\ \A q \in Pids : proc'[q].parent \in {proc[q].parent, NoPid}
       /\ \A q \in Pids : proc'[q].stage = "none" => proc[q].stage = "none"
       /\ \A q \in Pids : proc[q].stage \in HarnessStages \cup Ended =>
            proc'[q].stage \in HarnessStages \cup Ended
  <2>. SUFFICES ASSUME NEW q \in Pids
       PROVE  /\ proc'[q].parent \in {proc[q].parent, NoPid}
              /\ proc'[q].stage = "none" => proc[q].stage = "none"
              /\ proc[q].stage \in HarnessStages \cup Ended =>
                   proc'[q].stage \in HarnessStages \cup Ended
    OBVIOUS
  <2>. QED BY <1>6, <1>8 DEF Ended
<1>9. IndexOK'
  BY <1>6, <1>8 DEF HInv, FamilyInv, IndexOK
<1>10. ParentsOK'
  <2>1. \A q \in Pids : proc[q].parent # NoPid => proc[q].parent \in Pids
    BY <1>4 DEF Process
  <2>. QED BY <1>8a, <2>1 DEF HInv, FamilyInv, ParentsOK
<1>11. TablesOld'
  <2>1. \A g \in Pids : \A s \in Slot :
          childInfo[g][s].pid # NoPid => childInfo[g][s].pid \in Pids
    BY <1>4 DEF Entry
  <2>. QED BY <1>8, <1>8a, <2>1 DEF HInv, FamilyInv, TablesOld
<1>12. ChildrenKnown'
  <2>1. ASSUME NEW g \in Pids, IsHarness(g)', NEW q \in Pids, proc'[q].parent = g
        PROVE  IsHarness(g) /\ proc[q].parent = g /\ q # c
    <3>1. q # c
      BY <1>6, <1>8, <2>1, Sizes
    <3>2. g # c
      BY <1>6, <1>8, <2>1 DEF IsHarness, HarnessStages
    <3>. QED BY <1>6, <2>1, <3>1, <3>2 DEF IsHarness
  <2>. QED BY <1>8, <2>1 DEF HInv, FamilyInv, ChildrenKnown
<1>13. SlotsLeft'
  BY <1>6, <1>8 DEF HInv, FamilyInv, SlotsLeft
<1>14. ReturnedEnded' /\ NoOrphans'
  <2>1. returned \subseteq Pids
    BY DEF HInv, TypeOK
  <2>2. \A q \in Pids : Alive(q)' => q # c
    BY <1>6, <1>8 DEF Alive
  <2>3. ReturnedEnded'
    BY <1>2, <1>6, <1>8, <2>1 DEF HInv, FamilyInv, ReturnedEnded, Ended
  <2>4. NoOrphans'
    BY <1>2, <1>6, <2>2 DEF HInv, FamilyInv, NoOrphans, Alive
  <2>. QED BY <2>3, <2>4
<1>15. FamilyInv'
  BY <1>9, <1>10, <1>11, <1>12, <1>13, <1>14 DEF FamilyInv
<1>. QED BY <1>2, <1>6, <1>7, <1>15

-----------------------------------------------------------------------------
(* The first process *)

\* Whatever leaves the structures alone: nobody becomes the first process, it
\* fills only what is not published, and programs run only once it is.
LEMMA CalmBoot ==
  ASSUME HInv, UNCHANGED <<ready, filled>>,
         \A q \in Pids :
           Alive(q)' /\ proc'[q].idx = 0 =>
             /\ Alive(q) /\ proc[q].idx = 0
             /\ proc'[q].stage = "publish" <=> proc[q].stage = "publish",
         \A q \in Pids :
           proc'[q].stage \in {"fill", "publish"} => proc'[q].idx = 0 /\ ~ready,
         \A q \in Pids : proc'[q].stage \in UserStages => ready
  PROVE  BootInv'
<1>1. OneFirst'
  BY DEF HInv, BootInv, OneFirst
<1>2. FirstFills'
  BY DEF HInv, BootInv, FirstFills
<1>3. RunsReady'
  BY DEF RunsReady
<1>. QED BY <1>1, <1>2, <1>3 DEF BootInv

\* A process goes to another stage, not to publish and not from there.
LEMMA MovesHInv ==
  ASSUME HInv, NEW p \in Pids, NEW stage \in Stages, Moves(p, stage),
         \/ proc[p].stage \in SimStages /\ stage \in SimStages
         \/ proc[p].stage = "forked" /\ stage \in SimStages
         \/ proc[p].stage \in HarnessStages /\ stage \in {"loop", "reap"},
         \/ UNCHANGED childInfo
         \/ stage \in SimStages /\ childInfo' = [childInfo EXCEPT ![p] = NoTable],
         UNCHANGED <<ready, filled, returned>>, lock' \in Pids \cup {NoPid}, BarrierTyped',
         stage # "publish", proc[p].stage # "publish",
         stage = "fill" => proc[p].idx = 0 /\ ~ready,
         stage \in UserStages => ready
  PROVE  HInv'
<1>1. /\ proc' \in [Pids -> Process] /\ proc'[p].stage = stage
      /\ \A q \in Pids : proc'[q].idx = proc[q].idx
      /\ \A q \in Pids \ {p} : proc'[q] = proc[q]
  BY DEF Moves
<1>2. TypeOK'
  <2>1. childInfo' \in [Pids -> [Slot -> Entry]]
    BY Blank DEF HInv, TypeOK
  <2>. QED BY <1>1, <2>1 DEF HInv, TypeOK, BarrierTyped
<1>3. FamilyInv'
  BY MovesFamily
<1>4. BootInv'
  <2>1. Alive(p)
    BY DEF Alive, SimStages, UserStages, HarnessStages
  <2>2. \A q \in Pids :
          Alive(q)' /\ proc'[q].idx = 0 =>
            /\ Alive(q) /\ proc[q].idx = 0
            /\ proc'[q].stage = "publish" <=> proc[q].stage = "publish"
    BY <1>1, <2>1 DEF Alive
  <2>3. /\ \A q \in Pids :
             proc'[q].stage \in {"fill", "publish"} => proc'[q].idx = 0 /\ ~ready
        /\ \A q \in Pids : proc'[q].stage \in UserStages => ready
    BY <1>1 DEF HInv, BootInv, FirstFills, RunsReady, UserStages
  <2>. QED BY <2>2, <2>3, CalmBoot
<1>. QED BY <1>2, <1>3, <1>4 DEF HInv

\* No process does anything but write the phases or the flag.
LEMMA UnmovedHInv ==
  ASSUME HInv, UNCHANGED <<proc, childInfo, ready, filled, lock, returned>>, BarrierTyped'
  PROVE  HInv'
BY DEF BarrierTyped, HInv, TypeOK, FamilyInv, BootInv, IndexOK, ParentsOK, TablesOld,
       ChildrenKnown, SlotsLeft, ReturnedEnded, NoOrphans, OneFirst, FirstFills, RunsReady,
       IsHarness, Alive

\* A process ends.
LEMMA DiesHInv ==
  ASSUME HInv, NEW p \in Pids, Dies(p), Alive(p), UNCHANGED <<ready, filled, lock, barrier>>,
         \/ UNCHANGED returned
         \/ /\ returned' = returned \cup {p}
            /\ \A c \in Pids : proc[c].parent # p
  PROVE  HInv'
<1>1. /\ proc' \in [Pids -> Process] /\ childInfo' \in [Pids -> [Slot -> Entry]]
      /\ proc'[p].stage \in Ended
      /\ \A q \in Pids \ {p} : proc'[q] = proc[q] \/ proc'[q] = Gone
  BY DiesIs DEF HInv
<1>2. TypeOK'
  BY <1>1, BarrierKept DEF HInv, TypeOK, BarrierTyped
<1>3. FamilyInv'
  BY DiesFamily
<1>4. BootInv'
  <2>1. \A q \in Pids : proc'[q] = proc[q] \/ proc'[q].stage \in Ended
    BY <1>1, Blank DEF Ended
  <2>2. \A q \in Pids :
          Alive(q)' /\ proc'[q].idx = 0 =>
            /\ Alive(q) /\ proc[q].idx = 0
            /\ proc'[q].stage = "publish" <=> proc[q].stage = "publish"
    BY <2>1 DEF Alive, Ended
  <2>3. /\ \A q \in Pids :
             proc'[q].stage \in {"fill", "publish"} => proc'[q].idx = 0 /\ ~ready
        /\ \A q \in Pids : proc'[q].stage \in UserStages => ready
    BY <2>1 DEF HInv, BootInv, FirstFills, RunsReady, Ended, UserStages
  <2>. QED BY <2>2, <2>3, CalmBoot
<1>. QED BY <1>2, <1>3, <1>4 DEF HInv

LEMMA ReapHInv ==
  ASSUME HInv, NEW h \in Pids, Reap(h)
  PROVE  HInv'
<1>1. TypeOK' /\ FamilyInv' /\ UNCHANGED <<ready, filled>>
  BY ReapFamily
<1>2. PICK c \in Pids :
        /\ proc[c].stage = "zombie" /\ proc'[c] = Gone
        /\ \A q \in Pids \ {c} : proc'[q] = proc[q]
  BY ReapFamily
<1>3. \A q \in Pids : proc'[q] = proc[q] \/ proc'[q].stage \in Ended
  BY <1>2, Blank DEF Ended
<1>4. BootInv'
  <2>1. \A q \in Pids :
          Alive(q)' /\ proc'[q].idx = 0 =>
            /\ Alive(q) /\ proc[q].idx = 0
            /\ proc'[q].stage = "publish" <=> proc[q].stage = "publish"
    BY <1>3 DEF Alive, Ended
  <2>2. /\ \A q \in Pids :
             proc'[q].stage \in {"fill", "publish"} => proc'[q].idx = 0 /\ ~ready
        /\ \A q \in Pids : proc'[q].stage \in UserStages => ready
    BY <1>3 DEF HInv, BootInv, FirstFills, RunsReady, Ended, UserStages
  <2>. QED BY <1>1, <2>1, <2>2, CalmBoot
<1>. QED BY <1>1, <1>4 DEF HInv

\* The first process forks the one that takes its place, or is none.
LEMMA ForkHInv ==
  ASSUME HInv, NEW h \in Pids, Fork(h)
  PROVE  HInv'
<1>1. TypeOK' /\ FamilyInv' /\ UNCHANGED <<ready, filled>>
  BY ForkFamily DEF Fork
<1>2. PICK c \in Pids :
        /\ proc[c] = Nobody /\ c # h
        /\ proc[h].stage = "launch" /\ proc'[h].stage = "launch"
        /\ proc'[h].idx = proc[h].idx + 1
        /\ proc'[c].stage = "forked" /\ proc'[c].idx = proc[h].idx
        /\ \A q \in Pids \ {h, c} : proc'[q] = proc[q]
  BY ForkFamily
<1>3. proc'[h].idx # 0
  <2>1. proc[h].idx \in Nat
    BY Sizes DEF HInv, TypeOK, Process
  <2>. QED BY <1>2, <2>1
<1>4. /\ Alive(h) /\ ~Alive(c)
      /\ \A q \in Pids \ {h, c} : Alive(q)' => Alive(q)
  BY <1>2, Blank DEF Alive
<1>5. OneFirst'
  <2>1. ASSUME NEW q \in Pids, Alive(q)', proc'[q].idx = 0
        PROVE  \/ q = c /\ proc[h].idx = 0
               \/ q # c /\ q # h /\ Alive(q) /\ proc[q].idx = 0
    <3>1. CASE q = c
      BY <1>2, <2>1, <3>1
    <3>2. CASE q # c
      <4>1. q # h
        BY <1>3, <2>1
      <4>. QED BY <1>2, <1>4, <2>1, <3>2, <4>1
    <3>. QED BY <3>1, <3>2
  <2>. QED BY <1>4, <2>1 DEF HInv, BootInv, OneFirst
<1>6. FirstFills'
  <2>1. \A q \in Pids : Alive(q)' /\ proc'[q].idx = 0 /\ ~ready =>
          filled = IF proc'[q].stage = "publish" THEN 1 ELSE 0
    <3>. SUFFICES ASSUME NEW q \in Pids, Alive(q)', proc'[q].idx = 0, ~ready
         PROVE  filled = IF proc'[q].stage = "publish" THEN 1 ELSE 0
      OBVIOUS
    <3>1. CASE q = c
      BY <1>2, <1>4, <3>1 DEF HInv, BootInv, FirstFills
    <3>2. CASE q # c
      BY <1>2, <1>3, <1>4, <3>2 DEF HInv, BootInv, FirstFills
    <3>. QED BY <3>1, <3>2
  <2>2. \A q \in Pids : proc'[q].stage \in {"fill", "publish"} => proc'[q].idx = 0 /\ ~ready
    BY <1>2 DEF HInv, BootInv, FirstFills
  <2>. QED BY <1>1, <2>1, <2>2 DEF HInv, BootInv, FirstFills
<1>7. RunsReady'
  BY <1>1, <1>2 DEF HInv, BootInv, RunsReady, UserStages
<1>. QED BY <1>1, <1>5, <1>6, <1>7 DEF HInv, BootInv

\* A child that could not exec is not the first process.
LEMMA ExecFailsHInv ==
  ASSUME HInv, NEW c \in Pids, ExecFails(c)
  PROVE  HInv'
<1>1. /\ TypeOK' /\ FamilyInv' /\ UNCHANGED <<ready, filled>>
      /\ proc[c].stage = "forked" /\ proc'[c].stage = "launch"
      /\ proc'[c].idx = proc[c].idx + 1
      /\ \A q \in Pids \ {c} : proc'[q] = proc[q]
  BY ExecFailsFamily DEF ExecFails
<1>2. proc'[c].idx # 0
  <2>1. proc[c].idx \in Nat
    BY Sizes DEF HInv, TypeOK, Process
  <2>. QED BY <1>1, <2>1
<1>3. \A q \in Pids :
        Alive(q)' /\ proc'[q].idx = 0 =>
          /\ Alive(q) /\ proc[q].idx = 0
          /\ proc'[q].stage = "publish" <=> proc[q].stage = "publish"
  BY <1>1, <1>2 DEF Alive
<1>4. /\ \A q \in Pids :
           proc'[q].stage \in {"fill", "publish"} => proc'[q].idx = 0 /\ ~ready
      /\ \A q \in Pids : proc'[q].stage \in UserStages => ready
  BY <1>1 DEF HInv, BootInv, FirstFills, RunsReady, UserStages
<1>. QED BY <1>1, <1>3, <1>4, CalmBoot DEF HInv

\* The first process fills the structures ...
LEMMA FillHInv ==
  ASSUME HInv, NEW p \in Pids, Fill(p)
  PROVE  HInv'
<1>1. /\ Moves(p, "publish") /\ proc[p].stage = "fill"
      /\ "publish" \in Stages /\ "publish" \in SimStages /\ "fill" \in SimStages
      /\ filled' = filled + 1 /\ UNCHANGED <<childInfo, ready, lock, returned>>
      /\ lead' = NoPhase /\ weave' = FALSE
  BY GotoMoves, Kinds DEF Fill, HInv, SimStages, UserStages
<1>2. /\ proc' \in [Pids -> Process] /\ proc'[p].stage = "publish"
      /\ \A q \in Pids : proc'[q].idx = proc[q].idx
      /\ \A q \in Pids \ {p} : proc'[q] = proc[q]
  BY <1>1 DEF Moves
<1>3. proc[p].idx = 0 /\ ~ready /\ filled = 0 /\ Alive(p)
  BY <1>1 DEF HInv, BootInv, FirstFills, Alive
<1>4. TypeOK'
  <2>1. lead' \in [Cores -> Int] /\ weave' \in BOOLEAN
    BY <1>1, NoPhaseIs
  <2>. QED BY <1>1, <1>2, <1>3, <2>1 DEF HInv, TypeOK
<1>5. FamilyInv'
  BY <1>1, MovesFamily
<1>6. \A q \in Pids : Alive(q)' => Alive(q)
  BY <1>2, <1>3 DEF Alive
<1>7. OneFirst'
  BY <1>2, <1>6 DEF HInv, BootInv, OneFirst
<1>8. FirstFills'
  <2>1. \A q \in Pids : Alive(q)' /\ proc'[q].idx = 0 => q = p
    BY <1>2, <1>3, <1>6 DEF HInv, BootInv, OneFirst
  <2>2. \A q \in Pids : proc'[q].stage \in {"fill", "publish"} => proc'[q].idx = 0
    BY <1>2, <1>3 DEF HInv, BootInv, FirstFills
  <2>. QED BY <1>1, <1>2, <1>3, <2>1, <2>2 DEF FirstFills
<1>9. RunsReady'
  BY <1>1, <1>2 DEF HInv, BootInv, RunsReady, UserStages
<1>. QED BY <1>4, <1>5, <1>7, <1>8, <1>9 DEF HInv, BootInv

\* ... and publishes them.
LEMMA PublishHInv ==
  ASSUME HInv, NEW p \in Pids, Publish(p)
  PROVE  HInv'
<1>1. /\ Moves(p, "run") /\ proc[p].stage = "publish"
      /\ "run" \in Stages /\ "run" \in SimStages /\ "publish" \in SimStages
      /\ ready' = TRUE /\ UNCHANGED <<childInfo, filled, lock, barrier, returned>>
  BY GotoMoves, Kinds DEF Publish, HInv, SimStages, UserStages
<1>2. /\ proc' \in [Pids -> Process] /\ proc'[p].stage = "run"
      /\ \A q \in Pids : proc'[q].idx = proc[q].idx
      /\ \A q \in Pids \ {p} : proc'[q] = proc[q]
  BY <1>1 DEF Moves
<1>3. proc[p].idx = 0 /\ ~ready /\ filled = 1 /\ Alive(p)
  BY <1>1 DEF HInv, BootInv, FirstFills, Alive
<1>4. TypeOK'
  BY <1>1, <1>2, BarrierKept DEF HInv, TypeOK, BarrierTyped
<1>5. FamilyInv'
  BY <1>1, MovesFamily
<1>6. \A q \in Pids : Alive(q)' => Alive(q)
  BY <1>2, <1>3 DEF Alive
<1>7. OneFirst'
  BY <1>2, <1>6 DEF HInv, BootInv, OneFirst
<1>8. FirstFills'
  <2>1. \A q \in Pids : proc'[q].stage \notin {"fill", "publish"}
    <3>. SUFFICES ASSUME NEW q \in Pids, proc'[q].stage \in {"fill", "publish"}
         PROVE  FALSE
      OBVIOUS
    <3>1. q # p /\ proc[q].stage \in {"fill", "publish"}
      BY <1>2
    <3>2. Alive(q) /\ proc[q].idx = 0
      BY <3>1 DEF Alive, HInv, BootInv, FirstFills
    <3>. QED BY <1>3, <3>1, <3>2 DEF HInv, BootInv, OneFirst
  <2>. QED BY <1>1, <1>3, <2>1 DEF FirstFills
<1>9. RunsReady'
  BY <1>1 DEF RunsReady
<1>. QED BY <1>4, <1>5, <1>7, <1>8, <1>9 DEF HInv, BootInv

-----------------------------------------------------------------------------
(* Every step *)

\* The harness's own steps.  It returns when no child runs for all it knows,
\* and then it has none.
LEMMA HarnessStepHInv ==
  ASSUME HInv, NEW h \in Pids, HarnessStep(h) \/ ForkFails(h)
  PROVE  HInv'
<1>. DEFINE S == {s \in Slot : childInfo[h][s].status = "RUNNING"}
<1>1. {"loop", "reap"} \subseteq Stages /\ {"launch", "loop", "reap"} \subseteq HarnessStages
      /\ {"launch", "loop", "reap"} \cap (SimStages \cup UserStages \cup {"publish", "fill"}) = {}
  BY Kinds DEF HarnessStages, SimStages, UserStages
<1>2. lock \in Pids \cup {NoPid} /\ (UNCHANGED barrier => BarrierTyped')
  BY BarrierKept DEF HInv, TypeOK
<1>3. CASE Fork(h)
  BY <1>3, ForkHInv
<1>4. CASE Launched(h)
  <2>1. Moves(h, "loop") /\ proc[h].stage = "launch"
    BY <1>1, <1>4, GotoMoves DEF Launched, HInv
  <2>. QED BY <1>1, <1>2, <1>4, <2>1, MovesHInv DEF Launched
<1>5. CASE Loop(h)
  <2>1. Moves(h, "reap") /\ proc[h].stage = "loop"
    BY <1>1, <1>5, GotoMoves DEF Loop, HInv
  <2>. QED BY <1>1, <1>2, <1>5, <2>1, MovesHInv DEF Loop
<1>6. CASE ReapNone(h)
  <2>1. Moves(h, "loop") /\ proc[h].stage = "reap"
    BY <1>1, <1>6, GotoMoves DEF ReapNone, HInv
  <2>. QED BY <1>1, <1>2, <1>6, <2>1, MovesHInv DEF ReapNone
<1>7. CASE Reap(h)
  BY <1>7, ReapHInv
<1>8. CASE Return(h)
  <2>1. S = {}
    <3>1. IsFiniteSet(Slot)
      BY Sizes, FS_Interval
    <3>2. IsFiniteSet(S)
      BY <3>1, FS_Subset
    <3>3. Cardinality(S) = 0
      BY <1>8 DEF Return, getNumChildren
    <3>. QED BY <3>2, <3>3, FS_EmptySet
  <2>2. \A c \in Pids : proc[c].parent # h
    BY <1>8, <2>1 DEF Return, HInv, FamilyInv, ChildrenKnown, IsHarness, HarnessStages
  <2>3. Alive(h)
    BY <1>8 DEF Return, Alive
  <2>. QED BY <1>8, <2>2, <2>3, DiesHInv DEF Return
<1>9. CASE ForkFails(h)
  BY <1>9, DiesHInv DEF ForkFails, Alive
<1>. QED BY <1>3, <1>4, <1>5, <1>6, <1>7, <1>8, <1>9 DEF HarnessStep

\* The steps of a child between fork and exec, and of a simulator.
LEMMA SimStepHInv ==
  ASSUME HInv, NEW p \in Pids,
         Exec(p) \/ ExecFails(p) \/ SimStep(p) \/ Call(p) \/ EndPhase(p) \/ Reexec(p) \/ Finish(p) \/ Killed(p)
  PROVE  HInv'
<1>1. /\ SimStages \subseteq Stages
      /\ UserStages \cup {"prctl", "attach", "isready", "fill", "poll"} \subseteq SimStages
      /\ UserStages \cap {"prctl", "attach", "isready", "fill", "publish", "poll"} = {}
      /\ {"run", "lock", "cs", "gate", "update", "report"} \subseteq UserStages
      /\ \A stage \in SimStages : stage \notin {"none", "forked", "zombie", "gone"}
  BY Kinds DEF SimStages, UserStages
<1>2. lock \in Pids \cup {NoPid} /\ (UNCHANGED barrier => BarrierTyped')
  BY BarrierKept DEF HInv, TypeOK
<1>3. /\ HInv => TypeOK
      /\ \A stage \in SimStages : Goto(p, stage) => Moves(p, stage)
  BY <1>1, GotoMoves DEF HInv
<1>4. \A q \in Pids : proc[q].stage \in UserStages => ready
  BY DEF HInv, BootInv, RunsReady
<1>0. lead \in [Cores -> Int] /\ 0 \in Cores
  BY Sizes DEF HInv, TypeOK, Cores
<1>5. CASE Exec(p)
  <2>1. Moves(p, "prctl") /\ proc[p].stage = "forked"
        /\ childInfo' = [childInfo EXCEPT ![p] = NoTable]
        /\ UNCHANGED <<ready, filled, lock, barrier, returned>>
    BY <1>1, <1>3, <1>5 DEF Exec
  <2>. QED BY <1>1, <1>2, <2>1, MovesHInv
<1>6. CASE ExecFails(p)
  BY <1>6, ExecFailsHInv
<1>7. CASE Prctl(p)
  <2>1. Moves(p, "attach") /\ proc[p].stage = "prctl"
        /\ UNCHANGED <<childInfo, ready, filled, lock, barrier, returned>>
    BY <1>3, <1>7, PrctlMoves DEF Prctl
  <2>. QED BY <1>1, <1>2, <2>1, MovesHInv
<1>8. CASE Attach(p)
  <2>1. proc[p].stage = "attach" /\ UNCHANGED <<ready, filled, lock, barrier, returned>>
    BY <1>8 DEF Attach
  <2>2. CASE \E q \in Pids : Attached(q)
    <3>1. Moves(p, "isready") /\ UNCHANGED childInfo
      BY <1>1, <1>3, <1>8, <2>2 DEF Attach
    <3>. QED BY <1>1, <1>2, <2>1, <3>1, MovesHInv
  <2>3. CASE ~\E q \in Pids : Attached(q)
    <3>1. Dies(p) /\ Alive(p)
      BY <1>8, <2>1, <2>3 DEF Attach, Alive
    <3>. QED BY <2>1, <3>1, DiesHInv
  <2>. QED BY <2>2, <2>3
<1>9. CASE IsReady(p)
  <2>1. proc[p].stage = "isready" /\ UNCHANGED <<childInfo, ready, filled, lock, barrier, returned>>
    BY <1>9 DEF IsReady
  <2>2. CASE proc[p].idx = 0 /\ ~ready
    <3>1. Moves(p, "fill")
      BY <1>1, <1>3, <1>9, <2>2 DEF IsReady
    <3>. QED BY <1>1, <1>2, <2>1, <2>2, <3>1, MovesHInv
  <2>3. CASE ~(proc[p].idx = 0 /\ ~ready)
    <3>1. Moves(p, "poll")
      BY <1>1, <1>3, <1>9, <2>3 DEF IsReady
    <3>. QED BY <1>1, <1>2, <2>1, <3>1, MovesHInv
  <2>. QED BY <2>2, <2>3
<1>10. CASE Fill(p)
  BY <1>10, FillHInv
<1>11. CASE Publish(p)
  BY <1>11, PublishHInv
<1>12. CASE Poll(p)
  <2>1. Moves(p, "run") /\ proc[p].stage = "poll" /\ ready
        /\ UNCHANGED <<childInfo, ready, filled, lock, barrier, returned>>
    BY <1>1, <1>3, <1>12 DEF Poll
  <2>. QED BY <1>1, <1>2, <2>1, MovesHInv
<1>13. CASE Acquire(p)
  <2>1. Moves(p, "cs") /\ proc[p].stage = "lock" /\ ready /\ lock' = p
        /\ UNCHANGED <<childInfo, ready, filled, barrier, returned>>
    BY <1>1, <1>3, <1>4, <1>13 DEF Acquire
  <2>. QED BY <1>1, <1>2, <2>1, MovesHInv
<1>14. CASE Release(p)
  <2>1. Moves(p, "run") /\ proc[p].stage = "cs" /\ ready /\ lock' = NoPid
        /\ UNCHANGED <<childInfo, ready, filled, barrier, returned>>
    BY <1>1, <1>3, <1>4, <1>14 DEF Release
  <2>. QED BY <1>1, <1>2, <2>1, MovesHInv
<1>15. CASE ParentDied(p)
  <2>1. Alive(p)
    BY <1>1, <1>15 DEF ParentDied, IsSim, Alive
  <2>. QED BY <1>15, <2>1, DiesHInv DEF ParentDied
<1>16. CASE Call(p)
  <2>1. Moves(p, "lock") /\ proc[p].stage = "run" /\ ready
        /\ UNCHANGED <<childInfo, ready, filled, lock, barrier, returned>>
    BY <1>1, <1>3, <1>4, <1>16 DEF Call
  <2>. QED BY <1>1, <1>2, <2>1, MovesHInv
<1>17. CASE Reexec(p)
  <2>1. Moves(p, "prctl") /\ proc[p].stage = "run"
        /\ UNCHANGED <<childInfo, ready, filled, lock, barrier, returned>>
    BY <1>1, <1>3, <1>17 DEF Reexec
  <2>. QED BY <1>1, <1>2, <2>1, MovesHInv
<1>18. CASE Finish(p)
  BY <1>18, DiesHInv DEF Finish, Alive
<1>19. CASE Killed(p)
  BY <1>19, DiesHInv DEF Killed
<1>20. CASE EndPhase(p)
  <2>1. Moves(p, "gate") /\ proc[p].stage = "run" /\ ready
        /\ UNCHANGED <<childInfo, ready, filled, lock, returned>>
    BY <1>1, <1>3, <1>4, <1>20 DEF EndPhase
  <2>2. BarrierTyped'
    <3>1. lead' = [lead EXCEPT ![proc[p].idx] = lead[proc[p].idx] + 1] /\ UNCHANGED weave
      BY <1>20 DEF EndPhase
    <3>2. \A c \in Cores : lead[c] + 1 \in Int
      BY <1>0
    <3>3. lead' \in [Cores -> Int]
      BY <1>0, <3>1, <3>2
    <3>. QED BY <3>1, <3>3 DEF BarrierTyped, HInv, TypeOK
  <2>. QED BY <1>1, <1>2, <2>1, <2>2, MovesHInv
<1>21. CASE ScanPhases(p)
  <2>1. Moves(p, "update") /\ proc[p].stage = "gate" /\ ready
        /\ UNCHANGED <<childInfo, ready, filled, lock, barrier, returned>>
    BY <1>1, <1>3, <1>4, <1>21 DEF ScanPhases
  <2>. QED BY <1>1, <1>2, <2>1, MovesHInv
<1>22. CASE UpdateGlobalPhase(p)
  <2>1. Moves(p, "gate") /\ proc[p].stage = "update" /\ ready
        /\ UNCHANGED <<childInfo, ready, filled, lock, returned>>
    BY <1>1, <1>3, <1>4, <1>22 DEF UpdateGlobalPhase
  <2>2. BarrierTyped'
    BY <1>0, <1>22, Sizes DEF UpdateGlobalPhase, BarrierTyped
  <2>. QED BY <1>1, <1>2, <2>1, <2>2, MovesHInv
<1>23. CASE PassGate(p)
  <2>1. Moves(p, "report") /\ proc[p].stage = "gate" /\ ready
        /\ UNCHANGED <<childInfo, ready, filled, lock, barrier, returned>>
    BY <1>1, <1>3, <1>4, <1>23 DEF PassGate
  <2>. QED BY <1>1, <1>2, <2>1, MovesHInv
<1>24. CASE LeaveWeave(p)
  <2>1. Moves(p, "run") /\ proc[p].stage = "report" /\ ready
        /\ UNCHANGED <<childInfo, ready, filled, lock, barrier, returned>>
    BY <1>1, <1>3, <1>4, <1>24 DEF LeaveWeave
  <2>. QED BY <1>1, <1>2, <2>1, MovesHInv
<1>25. CASE ClearWeave(p)
  <2>1. UNCHANGED <<proc, childInfo, ready, filled, lock, lead, returned>> /\ weave' = FALSE
    BY <1>25 DEF ClearWeave
  <2>. QED BY <1>0, <2>1, UnmovedHInv DEF BarrierTyped
<1>. QED BY <1>5, <1>6, <1>7, <1>8, <1>9, <1>10, <1>11, <1>12, <1>13, <1>14, <1>15,
           <1>16, <1>17, <1>18, <1>19, <1>20, <1>21, <1>22, <1>23, <1>24, <1>25 DEF SimStep

LEMMA NextHInv == HInv /\ [Next]_vars => HInv'
<1>. SUFFICES ASSUME HInv, [Next]_vars PROVE HInv'
  OBVIOUS
<1>1. CASE Next
  BY <1>1, HarnessStepHInv, SimStepHInv DEF Next
<1>2. CASE UNCHANGED vars
  <2>1. UNCHANGED <<proc, childInfo, ready, filled, lock, returned>> /\ UNCHANGED barrier
    BY <1>2 DEF vars
  <2>. QED BY <2>1, BarrierKept, UnmovedHInv
<1>. QED BY <1>1, <1>2

LEMMA Invariance == Spec => []HInv
BY InitHInv, NextHInv, PTL DEF Spec

-----------------------------------------------------------------------------
(* The results *)

\* The tables, the processes and the segment stay well formed.
THEOREM TypeCorrect == Spec => []TypeOK
<1>1. HInv => TypeOK
  BY DEF HInv
<1>. QED BY <1>1, Invariance, PTL

\* The structures SimInit shares are filled once, by the one process that ever
\* finds itself first, and no program runs before.
THEOREM UsesInitialisedHolds == Spec => []UsesInitialised
<1>1. HInv => UsesInitialised
  BY DEF HInv, BootInv, FirstFills, RunsReady, UsesInitialised
<1>. QED BY <1>1, Invariance, PTL

\* eraseChild finds every child that is reaped, in state RUNNING.
THEOREM EraseFindsChildHolds == Spec => []EraseFindsChild
<1>1. HInv => EraseFindsChild
  <2>. SUFFICES ASSUME HInv, NEW h \in Pids, NEW c \in Zombies(h), IsHarness(h)
       PROVE  /\ SlotsOf(h, c) # {}
              /\ childInfo[h][SlotOf(h, c)].status = "RUNNING"
    BY DEF EraseFindsChild
  <2>1. c \in Pids /\ proc[c].parent = h
    BY DEF Zombies
  <2>2. /\ \E s \in Slot : childInfo[h][s].pid = c
        /\ \A s \in Slot : childInfo[h][s].pid = c => childInfo[h][s].status = "RUNNING"
    BY <2>1 DEF HInv, FamilyInv, ChildrenKnown
  <2>3. SlotsOf(h, c) # {}
    BY <2>2 DEF SlotsOf
  <2>. QED BY <2>1, <2>2, <2>3, SlotOfIs DEF HInv
<1>. QED BY <1>1, Invariance, PTL

\* Nobody outlives the harness that forked it and returned from main.
THEOREM NoOrphansHolds == Spec => []NoOrphans
<1>1. HInv => NoOrphans
  BY DEF HInv, FamilyInv
<1>. QED BY <1>1, Invariance, PTL
=============================================================================
