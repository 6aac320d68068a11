\* Three tasks, two of one bucket, and a map that has room for two or for all.
CONSTANTS
  MaxTask = 3
  Bucket <- MCBucket
  Rooms = {2, 3}
  MaxCount = 1
SPECIFICATION TracerSpec
INVARIANTS
  DrainsOpenMap
  FaultsConserved
PROPERTIES
  FaultsReported
