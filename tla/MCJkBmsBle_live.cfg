CONSTANTS
  MaxNoResponse = 3
  MinResponseSize = 2
  MaxResponseSize = 3
  FrameSizes = {2, 3}
  Throttle = 1
  DeviceHandle = 3
  ButtonCommands = {}
  StreamCommands = {"cell_info", "device_info"}
  MaxLosses = 1
SPECIFICATION FairSpec
PROPERTIES
  ImplementsAvailability
  RequestsAreAnswered
