CONSTANTS
  WORD = 16
  Events = {e1, e2}
  NoEvent = NoEvent
  Lowest = 3
  Delays = {0, 2}
  Drifts <- MCDrifts
  MaxDrift = 4
  Resets = {}
  MaxNow = 3
  ObserverChanges = FALSE
SPECIFICATION FairSpec
PROPERTIES EveryEventServed StopJoins
