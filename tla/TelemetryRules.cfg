SPECIFICATION HelpSpec
CONSTANTS
  HelpWindow = 2
  InactivityThreshold = 3
  IdlePeriod = 1
  MaxTime = 8
  MaxPresses = 4
  MaxSessions = 2
INVARIANTS RepeatedHelpExact InlineSound DropTimely DerivedPerSession
