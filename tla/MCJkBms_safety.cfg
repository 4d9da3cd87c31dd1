CONSTANTS
  MaxNoResponse = 2
  RxTimeout = 1
  SizeOf <- MCSizeOf
  ClaimedSizes = {4, 7}
  FifoSize = 5
  CompleteStatus = {TRUE, FALSE}
  MaxLosses = 2
  MaxForgeries = 1
  WriteDelay = 2
  MaxWrites = 0
SPECIFICATION Spec
INVARIANTS
  TypeOK
  ReassemblyInStep
PROPERTIES
  CompleteFrameIsDecoded
  KeepsAvailabilityContract
  NothingFromShortStatus
