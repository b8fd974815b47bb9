SPECIFICATION ManagersSpec
CONSTANT MaxRetries = 8
INVARIANTS BackoffGrows SendDeliversOnce BrownoutLocksOut
