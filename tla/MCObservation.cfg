\* Two tasks of one bucket, a map that may have room for one, a huge page and another one,
\* reads of two pages, one exec, and two faults that the tracer knows of.
CONSTANTS
  MaxTask = 2
  Bucket <- MCBucket
  Rooms = {1, 2}
  MaxCount = 1
  Vmas <- MCVmas
  Chunk = 2
  MaxMm = 2
  HugeVmas <- MCHuge
  HugeSize = 2
  MaxFaults = 2
SPECIFICATION ObservationSpec
INVARIANTS
  TouchedWithinTotal
  NoFalseCold
  ObserversAgree
PROPERTIES
  SamplesEnd
