CONSTANTS
  MaxRefused = 2
  Room = 2
  MaxFailures = 0
SPECIFICATION FairSpec
PROPERTIES ConfirmationIsOwn
