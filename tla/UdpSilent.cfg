SPECIFICATION FairSpec
CONSTANTS
  Ips = {"ip1", "ip2"}
  Ports = {"p1", "p2"}
  Absent = Absent
  MINUTES_LEFT = 1
  HOUR = 3
  MaxReports = 2
  MaxRecords = 4
  MaxNow = 5
INVARIANT SilentIsDisconnected
CHECK_DEADLOCK FALSE
