SPECIFICATION Spec
CONSTANTS
  Ips <- MCIps
  Urls <- MCUrls
  Log <- MCCutLog
  Junk <- MCTwoJunks
  UINT16_RANGE = 2
  NUM_THREADS = 3
  MaxRuns = 1
  MaxFaults = 0
  MaxAllocFails = 1
  MaxReadFails = 1
  NoReport = NoReport
INVARIANTS
  TallyExact
  LinesOnce
