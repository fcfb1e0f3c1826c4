SPECIFICATION FairSpec
CONSTANTS
  Ips <- MCIps
  Urls <- MCUrls
  Log <- MCLog
  Junk <- MCJunk
  UINT16_RANGE = 2
  NUM_THREADS = 2
  MaxRuns = 2
  MaxFaults = 1
  MaxAllocFails = 0
  MaxReadFails = 2
  NoReport = NoReport
INVARIANTS
  MutualExclusion
PROPERTIES
  TallySpec
  RunEnds
CHECK_DEADLOCK FALSE
