CONSTANTS
  NumFrames = 3
  KeyFrames = {0, 2}
  Clips <- MCClips
  MAX_PACKETS_BUFFERED = 2
  MAX_VIDEO_FRAMES = 0
  SeekTimes = {0}
  MaxCalls = 2
  LastStart = 1
  MaxPause = 1
SPECIFICATION FairSpec
INVARIANTS TypeOK ChainAlive MediaClock
PROPERTIES WaiterCalled EndReported
CHECK_DEADLOCK FALSE
