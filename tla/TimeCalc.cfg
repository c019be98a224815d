CONSTANTS
  Indefinite = 1000
  Horizon = 100
  Attributes <- MCAttributes
  BeginLists <- MCBeginLists
  EndLists <- MCEndLists
  ParentDurs <- MCParentDurs
  Instants <- MCInstants
  MaxIntervals = 2
  MaxChanges = 2
SPECIFICATION Spec
INVARIANTS TypeOK ValidInterval MinMaxKept NextIsLater RecomputeNeverLater
CHECK_DEADLOCK FALSE
