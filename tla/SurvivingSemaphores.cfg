SPECIFICATION Spec
CONSTANTS
  Ips <- MCIps
  Urls <- MCUrls
  Log <- MCLog
  Junk <- MCJunk
  UINT16_RANGE = 2
  NUM_THREADS = 2
  MaxRuns = 2
  MaxFaults = 1
  MaxAllocFails = 0
  MaxReadFails = 0
  NoReport = NoReport
INVARIANT
  SemaphoresInitialised
