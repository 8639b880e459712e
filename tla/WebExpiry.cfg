SPECIFICATION Spec
CONSTANTS
  Ips = {"ip1", "ip2"}
  Ports = {"p1", "p2"}
  Absent = Absent
  ATTACK_TIMEOUT = 2
  MaxRecords = 6
  MaxNow = 7
PROPERTY OnlyExpiredDeleted
CHECK_DEADLOCK FALSE
