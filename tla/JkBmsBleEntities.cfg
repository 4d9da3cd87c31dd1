CONSTANTS
  MaxNoResponse = 2
  Throttle = 2
SPECIFICATION FairSpec
INVARIANTS
  MeasurementsFollowFrames
PROPERTIES
  MeasurementsReturn
