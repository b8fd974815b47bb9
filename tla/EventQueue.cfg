SPECIFICATION Spec
CONSTANTS
  MAX_QUEUE_SIZE = 2
  MAX_RECORDS_PER_LOG = 3
  MaxEvents = 4
INVARIANTS TypeOK Bounded RejectedLeavesNoTrace AckPersistedFirst
PROPERTY UnacknowledgedRecordsKept
