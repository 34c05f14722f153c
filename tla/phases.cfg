SPECIFICATION PhasesFairSpec
CONSTANTS
  numProcs = 2
  CycleMod = 7
  PHASE_LENGTH = 2
  MaxOps = 2
  PhaseBound = 3
CHECK_DEADLOCK FALSE
INVARIANTS PhasesTypeOK OneAhead GlobalPhaseReached
PROPERTIES GlobalPhaseGrows PhaseTakesLength ImplementsWeave BarrierStalls
