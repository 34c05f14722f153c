------------------------------ MODULE Geometry ------------------------------
(***************************************************************************)
(* The simulated machine of the architectures that main can be compiled    *)
(* for, as the #defines of src/libsim.h give it: how many processes, which *)
(* lines, and the slots of each cache.                                     *)
(***************************************************************************)
EXTENDS Integers

CONSTANTS
  numProcs,         \* processes 0 .. numProcs - 1
  Addrs,            \* the line addresses the programs touch
  L1Sets, L1Ways, L2Sets, L2Ways,         \* geometry of the private caches
  NvcSets, NvcWays, DramSets, DramWays    \* geometry of the shared ones

ASSUME GeometryAssumption ==
  /\ numProcs \in Nat \ {0}
  /\ Addrs \subseteq Nat \ {0}
  /\ L1Sets \in Nat \ {0}   /\ L1Ways \in Nat \ {0}
  /\ L2Sets \in Nat \ {0}   /\ L2Ways \in Nat \ {0}
  /\ NvcSets \in Nat \ {0}  /\ NvcWays \in Nat \ {0}
  /\ DramSets \in Nat \ {0} /\ DramWays \in Nat \ {0}

Procs == 0 .. numProcs - 1

\* (uint32_t)(-1) in a procId field.
NoProc == -1

L1Slots   == 0 .. L1Sets * L1Ways - 1
L2Slots   == 0 .. L2Sets * L2Ways - 1
NvcSlots  == 0 .. NvcSets * NvcWays - 1
DramSlots == 0 .. DramSets * DramWays - 1
=============================================================================
