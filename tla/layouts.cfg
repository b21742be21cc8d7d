SPECIFICATION Spec
CONSTANTS
  Starts <- MCStarts
  Moves <- MCMoves
  MaxSteps = 6
  Clocks <- MCClocks
  Signals = {5, 18, 28}
  Headers <- MCHeaders
  Items <- MCItems
  MaxItems = 3
  Points <- MCPoints
  MaxXAdds = 1
  MaxPoints = 3
  Registrations <- MCRegistrations
INVARIANT DocumentedLayouts
CHECK_DEADLOCK FALSE
