SPECIFICATION FairSpec
CONSTANTS
  Ips = {"ip1", "ip2"}
  Ports = {"p1", "p2"}
  Absent = Absent
  MINUTES_LEFT = 1
  HOUR = 3
  MaxReports = 2
  MaxRecords = 4
  MaxNow = 5
INVARIANTS TypeOK ReportedIsDeleted ExpiryPrompt OneOpenSession
PROPERTIES ImplementsSessionLog DeletedOnlyIfReported CheckerEnds
CHECK_DEADLOCK FALSE
