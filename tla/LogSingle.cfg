SPECIFICATION Spec
CONSTANTS
  Ips <- MCIps
  Urls <- MCUrls
  Log <- MCLog
  Junk <- MCJunk
  UINT16_RANGE = 4
  MaxRuns = 2
  MaxAllocFails = 2
  NoReport = NoReport
INVARIANTS
  CountsAreOfLinesRead
PROPERTIES
  ReportIsOfLinesRead
