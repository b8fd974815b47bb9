SPECIFICATION DeliverySpec
CONSTANTS
  MAX_QUEUE_SIZE = 2
  MAX_RECORDS_PER_LOG = 3
  MaxEvents = 4
  BatchSize = 2
INVARIANT AckedWasReceived
