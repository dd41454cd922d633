SPECIFICATION Spec
CONSTANTS
  Configs <- MCConfigs
  SERV_NUM = 2
  Stamps <- MCStamps
  RootStamp = 2
  ID_VALUES = 25
  MaxRuns = 4
  MaxCrashes = 1
CHECK_DEADLOCK FALSE
INVARIANT SetupTypeOK
INVARIANT KeysAgree
INVARIANT FreshStart
INVARIANT NothingLeft
INVARIANT Staffed
PROPERTY FatalOnlyWhen
