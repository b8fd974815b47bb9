SPECIFICATION FairSteadySpec
CONSTANTS
  MAX_QUEUE_SIZE = 2
  MAX_RECORDS_PER_LOG = 3
  MaxEvents = 5
  BatchSize = 2
INVARIANTS AckedWasReceived ReceivedInOrder
PROPERTY EventuallyDelivered
