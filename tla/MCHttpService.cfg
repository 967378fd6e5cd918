CONSTANTS
  Capacity = {0, 2}
  Duration <- Durations
  NoText = NoText
  Malformed = Malformed
  HalfHour = 8
  Hour = 9
  Uid = {u1, u2}
  LongUid = {u2}
  Client = {c1, c2}
  MaxFaults = 1
SPECIFICATION MCSpec
INVARIANTS TypeOK NeverUpWithoutServer QuietAfterShutdown
PROPERTIES AcceptedConfigurationsWork AnswersHonest ShutdownDrains StopEnds
