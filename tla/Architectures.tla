---------------------------- MODULE Architectures ----------------------------
(***************************************************************************)
(* The simulator as main leaves it for an architecture other than KILN     *)
(* (which is Kiln): the switch on ARCHITECTURE in src/libsim.cpp installs  *)
(* one family of handlers, and from then on the same instrumented program, *)
(* with the same transaction markers, runs over them.                      *)
(*                                                                         *)
(* SimInit and fastForward know nothing of the architecture: persist       *)
(* buffers and transaction counters exist, and the counters move, also     *)
(* under NATIVE and NVMLOG, whose handlers never look at them.             *)
(***************************************************************************)
EXTENDS Epb

VARIABLE stored   \* HISTORY of Native: [Procs -> SUBSET Addrs]

all == <<vars, stored>>

V == INSTANCE Native

InitNative == V!Init /\ persist = NoBooks /\ NoTrax
InitEpb    == Init /\ stored = [p \in Procs |-> {}]

ArchInit == InitNative \/ InitEpb

\* The cases of the switch that install native_* and nvmlog_*.
StepNative ==
  /\ arch \in V!Archs
  /\ V!Next
  /\ UNCHANGED <<persist, trax>>

MarkNative ==
  /\ arch \in V!Archs
  /\ \E p \in Procs : StartTx(p) \/ EndTx(p)
  /\ UNCHANGED stored

\* The cases that install epb_* and epb_bf_*.
StepEpb ==
  /\ arch \in Archs
  /\ Next
  /\ UNCHANGED stored

ArchNext == StepNative \/ MarkNative \/ StepEpb

ArchSpec == ArchInit /\ [][ArchNext]_all

-----------------------------------------------------------------------------
(* Properties *)

ArchTypeOK ==
  IF arch \in Archs THEN TypeOK
  ELSE V!TypeOK /\ persist \in [Procs -> BookType] /\ persistent \in [Procs -> BOOLEAN]
                /\ txId \in [Procs -> Txs]

\* Under every architecture no private cache holds a line in two slots, and
\* under EPB and EPB_BF no shared cache a line of one process.
LinesUnique == IF arch \in Archs THEN CachesUnique ELSE V!PrivateUnique

\* EPB and EPB_BF: no persist buffer holds a line twice, for any number of
\* processes; with one process, as libsim.h sets numProcs, the entries are whole.
EntriesDistinct ==
  arch \in Archs => PBDistinct /\ (numProcs = 1 => PBWhole)

\* EPB and EPB_BF: the two tags of a line agree at every level.
LinesTagged == arch \in Archs => TagsAgree

\* NATIVE: what is modified, or travels as modified, was stored to.
ModifiedWasStored == V!DirtyWasStored

\* NATIVE and NVMLOG: a victim of L1 has arrived in L2 when l1_evict returns.
VictimArrives == arch \in V!Archs => V!WritebackLands
=============================================================================
