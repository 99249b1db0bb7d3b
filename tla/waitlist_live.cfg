SPECIFICATION Spec
CONSTANTS
  h1 = h1
  h2 = h2
  h3 = h3
  p1 = p1
  promoter = promoter
  NoEntry = NoEntry
  NoHold = NoHold
  Entry = {1, 2}
  Fits = {2}
  Hold <- ThreeHolds
  Proc <- OneCaller
  BATCH_SIZE = 2
  Faults = 2
  Ops = {"expire"}
\* All entries are settled and all holds have ended.
CHECK_DEADLOCK FALSE
PROPERTIES
  EveryHoldEnds
  FittingEntryIsServed
