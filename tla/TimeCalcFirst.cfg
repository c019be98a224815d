CONSTANTS
  Indefinite = 1000
  Horizon = 100
  Attributes <- MCAttributes
  BeginLists <- MCBeginLists
  EndLists <- MCEndLists
  ParentDurs <- MCParentDurs
  Instants <- MCInstants
  MaxIntervals = 2
  MaxChanges = 2
SPECIFICATION FairSpec
PROPERTY FirstReturns
CHECK_DEADLOCK FALSE
