SPECIFICATION Spec
CONSTANTS
  Ips = {ip1, ip2}
  Sessions = {s1, s2}
  MaxVm = 2
  ShareGuests = TRUE
  Recycle = TRUE
  IdModulus = 2
  MaxGuests = 3
  MaxRequests = 3
INVARIANT UsingHasClient
CHECK_DEADLOCK FALSE
SYMMETRY Symmetry
