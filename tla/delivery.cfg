SPECIFICATION FairSpec
INVARIANTS TypeOK AnswerIsOwn NothingSkipped
PROPERTIES ReportsTakenInOrder JourneyGoesOn SignalStops
CONSTANTS
  MaxPos = 2
  MaxConns = 5
  SeqMod = 2
  FaultKinds = {"link", "reject", "redis", "crash", "signal", "kill"}
  MaxFaults = 2
CHECK_DEADLOCK FALSE
