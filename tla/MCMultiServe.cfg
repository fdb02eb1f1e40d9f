SPECIFICATION FairSpec
CONSTANTS
  N = 2
  Managed = {1}
  Agents = {1}
  Ending = {2}
  MaxRemovals = 1
CHECK_DEADLOCK FALSE
INVARIANT TypeOK
INVARIANT CleanExit
INVARIANT RecordsStayHome
PROPERTY EndStopsServing
PROPERTY TokensFollowPlatform
