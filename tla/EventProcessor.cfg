CONSTANTS
  WORD = 16
  Events = {e1, e2, e3}
  NoEvent = NoEvent
  Lowest = 2
  Delays = {0, 1, 2}
  Drifts <- MCDrifts
  MaxDrift = 4
  Resets = {0}
  MaxNow = 2
  ObserverChanges = TRUE
SYMMETRY MCSymmetry
SPECIFICATION Spec
INVARIANTS TypeOK SingleOwner DeltasExact NothingLeftToRun NoSetback
PROPERTY UrgentFirst
