CONSTANTS
  Runner = {r1, r2}
  Last = 5
  UpFile <- UpFiles
  Drops <- DownFiles
  MaxFaults = 2
SPECIFICATION MCSpec
INVARIANTS TypeOK RecordedInOrder RecordedAreThere TablesHaveTheirKeys RefusedOnlyOverHalfDown
PROPERTIES UpAppliesAll HalfDownStays
