SPECIFICATION Spec
CONSTANTS
  Ips = {ip1, ip2}
  Sessions = {s1, s2}
  MaxVm = 2
  ShareGuests = FALSE
  Recycle = TRUE
  IdModulus = 2
  MaxGuests = 3
  MaxRequests = 3
INVARIANT NotShared
CHECK_DEADLOCK FALSE
SYMMETRY Symmetry
