CONSTANTS
  NumChildren = 3
  NumClasses = 2
  Documents <- MCDocuments
  MaxBegins = 2
  MaxRounds = 2
  Fills = {"freeze"}
  Ends = {{}}
  Skips = {{}, {3}}
  Zeros = {{1, 2}}
SPECIFICATION LiveSpec
INVARIANTS TypeOK QueueExact OneActive OneFilled FillGivesWay NoIdleWait
PROPERTIES BestWaiterNext NoLowerTakesOver EveryWaiterServed
CHECK_DEADLOCK FALSE
