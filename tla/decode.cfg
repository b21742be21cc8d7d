SPECIFICATION Spec
CONSTANTS
  Starts <- MCStarts
  Moves <- MCMoves
  MaxSteps = 6
  Clocks <- MCClocks
  Signals = {5, 18, 28}
  Headers <- MCHeaders
  Items <- MCItems
  MaxItems = 3
  Points <- MCPoints
  MaxXAdds = 4
  MaxPoints = 3
  Registrations <- MCRegistrations
INVARIANTS LocationFaithful ExtrasComplete LevelsArePercentages BatchComplete
  RegistrationDecoded
CHECK_DEADLOCK FALSE
