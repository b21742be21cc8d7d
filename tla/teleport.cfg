SPECIFICATION Spec
INVARIANT StateSurvives
CONSTANTS
  MaxPos = 2
  MaxConns = 3
  SeqMod = 4
  FaultKinds = {"signal"}
  MaxFaults = 1
CHECK_DEADLOCK FALSE
