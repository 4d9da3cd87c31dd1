CONSTANTS
  MaxNoResponse = 2
  Throttle = 2
SPECIFICATION FairSpec
INVARIANTS
  MeasurementsFollowFrames
  ReadyShowsSettings
PROPERTIES
  CountersReturnWithConnections
