SPECIFICATION Spec
CONSTANTS
  Lines <- MCLines
  MaxLines = 2
  MaxTimers = 2
  Conns = {a, b}
  Endpoints = {"p", "q"}
  Data = {1}
  MaxChunks = 2
  MaxFiles = 1
  NoConn = NoConn
  Sources = {s, t}
  Matches <- MCMatches
  Logins = {"root"}
  Passwords = {"p", "q", "r"}
  Files <- MCFiles
  mintry = 2
  maxtry = 3
  maxcache = 1
  MaxTries = 4
  FsNames = {"d", "l"}
  Image <- MCImage
  MaxNew = 2
  MaxNodes = 4
  MaxUploads = 1
INVARIANTS TypeOK PipelineRuns Prompted EchoRestored Kept Owned Deserved OneMeaning
SYMMETRY Symmetry
CHECK_DEADLOCK FALSE
