CONSTANTS
  WORD = 8
  Speeds = {2}
  Times = {0, 4}
  Drifts <- MCDrifts
  MaxDrift = 5
SPECIFICATION Spec
PROPERTY ElapsedKept
