CONSTANTS
  MaxNoResponse = 2
  HeaderSize = 2
  MinResponseSize = 2
  MaxResponseSize = 3
  SizeOf <- MCSizeOf
  V2SettingsSize = 3
  Throttle = 0
  SettlingTime = 0
  ControlCommands = {"write_register"}
  MaxQueued = 2
  MaxLosses = 0
  MaxForgeries = 0
SPECIFICATION Spec
INVARIANT
  NoFrameLeftUndecoded
