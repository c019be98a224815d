CONSTANTS
  NumStreams = 2
  File <- MCFile
  MAX_PACKETS_BUFFERED = 2
  ClipBegins = {2}
  SeekTimes = {1}
  MaxSeeks = 1
SPECIFICATION FairSpec
INVARIANTS TypeOK NeverFreedEarly InSequence
PROPERTIES WaiterServed StopReturns
CHECK_DEADLOCK FALSE
