CONSTANTS
  Devices <- MCDevices
  Switched <- MCSwitched
  RxTimeout = 0
  FrameSize = 4
  FifoSize = 1
  MaxFaults = 1
  MaxWrites = 1
  MaxNoResponse = 1
SPECIFICATION FairSpec
INVARIANTS
  TypeOK
  ReassemblyInStep
PROPERTIES
  OwnFramesOnly
  KeepsAvailabilityContract
  SwitchSettles
