SPECIFICATION Safety
CONSTANTS
  h1 = h1
  h2 = h2
  h3 = h3
  p1 = p1
  promoter = promoter
  NoEntry = NoEntry
  NoHold = NoHold
  Entry = {1}
  Fits = {1}
  Hold <- OneHold
  Proc <- OneCaller
  BATCH_SIZE = 1
  Faults = 0
  Ops = {"resolve", "consume", "book"}
CHECK_DEADLOCK FALSE
PROPERTIES
  BookedStaysConverted
