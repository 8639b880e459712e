SPECIFICATION FairSpec
CONSTANT
  MaxPuts = 5
INVARIANTS TypeOK NothingLost FilesAgree EndsDrained
PROPERTIES WriterEnds
CHECK_DEADLOCK FALSE
