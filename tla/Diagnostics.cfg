SPECIFICATION DiagnosticsSpec
CONSTANTS
  telemetry = telemetry
  sync = sync
  Callers <- MCCallers
  MAX_RECORDS_PER_LOG = 2
  RING_BUFFER_MAX = 3
  MaxTime = 1
  MaxErrors = 3
SYMMETRY MCSymmetry
INVARIANT TracedErrorsAreStored
PROPERTY TraceSpec
