CONSTANTS
  MaxNoResponse = 2
  HeaderSize = 2
  MinResponseSize = 2
  MaxResponseSize = 3
  SizeOf <- MCSizeOf
  V2SettingsSize = 3
  Throttle = 1
  SettlingTime = 1
  ControlCommands = {}
  MaxQueued = 1
  MaxLosses = 1
  MaxForgeries = 0
SPECIFICATION FairSpec
INVARIANT ReassemblyInStep
PROPERTIES
  ImplementsAvailability
  InitializationSettles
  ReadyMeansStreaming
