CONSTANTS
  MaxRefused = 5
  Room = 2
  MaxFailures = 2
SPECIFICATION FairSpec
INVARIANTS TypeOK AnswersBounded LossBounded
PROPERTIES DroppedAfterTimeouts SendReturns
