CONSTANTS
  MaxNoResponse = 1
  RxTimeout = 1
  SizeOf <- MCShort
  ClaimedSizes = {5}
  FifoSize = 4
  CompleteStatus = {TRUE}
  MaxLosses = 1
  MaxForgeries = 0
  WriteDelay = 2
  MaxWrites = 1
SPECIFICATION FairSpec
PROPERTIES
  ImplementsAvailability
  SilenceResynchronises
  SwitchSettles
