\* The stored form of an event: escaping, separators and the earlier format.
CONSTANTS
  Char <- MCChar
  Events <- MCEvents
SPECIFICATION CodecSpec
INVARIANTS
  RoundTrip
