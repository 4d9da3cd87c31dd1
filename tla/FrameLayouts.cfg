CONSTANTS
  BmsCells = {0, 1, 14, 24, 85}
  BalancerCells = {0, 2, 20, 24, 255}
  HeltecSizes = {20, 21, 64, 99, 100, 101, 149, 150, 151, 299, 300}
  RawSizes = {8, 9, 10, 95, 96, 97, 254, 255}
  LastByte = 480
SPECIFICATION Spec
INVARIANTS
  ReadsPayloadOnly
  OneMeaningPerByte
CHECK_DEADLOCK FALSE
