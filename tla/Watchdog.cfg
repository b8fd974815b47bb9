SPECIFICATION WatchdogSpec
CONSTANTS
  Tasks <- MCTasks
  Deadline <- MCDeadline
  Modulus = 16
  MaxTime = 5
INVARIANTS WatchdogTypeOK AlarmsExplained
PROPERTY HungTaskReported
CHECK_DEADLOCK FALSE
