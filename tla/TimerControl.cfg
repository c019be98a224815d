CONSTANTS
  WORD = 8
  Speeds = {0, 1, 2, 3}
  Times = {0, 4}
  Drifts <- MCDrifts
  MaxDrift = 5
SPECIFICATION Spec
INVARIANT TypeOK
PROPERTY ImplementsTimerSpec
