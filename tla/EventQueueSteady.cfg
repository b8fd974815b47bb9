SPECIFICATION SteadySpec
CONSTANTS
  MAX_QUEUE_SIZE = 3
  MAX_RECORDS_PER_LOG = 4
  MaxEvents = 6
INVARIANTS RamMatchesFlash NoLoss NoReplay StableIds UploadOrder
PROPERTY OutboxSpec
