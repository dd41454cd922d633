SPECIFICATION FairSpec
CONSTANTS
  NOF_USERS = 1
  N_NEW_USERS = 1
  NOF_WORKERS = 2
  SERV_NUM = 2
  SIM_DURATION = 2
  UserIds = {0, 1}
  Sizes = {1, 2}
  MetaCap = 2
  DataCap = 6
INVARIANT StatsChannelTypeOK
INVARIANT NobodyRefused
PROPERTY EveryReportOnce
PROPERTY AllDaysCounted
