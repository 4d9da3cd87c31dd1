CONSTANTS
  MaxNoResponse = 2
  MinResponseSize = 3
  MaxResponseSize = 4
  FrameSizes <- MCFrameSizes
  Throttle = 1
  DeviceHandle = 18
  ButtonCommands = {"logbook"}
  StreamCommands = {"cell_info"}
  MaxLosses = 1
SPECIFICATION Spec
INVARIANTS
  TypeOK
  BufferBelowMinimum
  SessionCoherent
  ReassemblyInStep
PROPERTIES
  CompleteFrameIsDecoded
  KeepsAvailabilityContract
