CONSTANTS
  Subjects <- MCSubjects
  Samples <- MCSamples
  MaxChanges = 3
SPECIFICATION FairSpec
INVARIANTS
  OwnsItsSetting
PROPERTIES
  KeepsSetting
  SettingSettles
CHECK_DEADLOCK FALSE
