SPECIFICATION Safety
CONSTANTS
  h1 = h1
  h2 = h2
  h3 = h3
  p1 = p1
  promoter = promoter
  NoEntry = NoEntry
  NoHold = NoHold
  Entry = {1, 2}
  Fits = {1, 2}
  Hold <- TwoHolds
  Proc <- OneCaller
  BATCH_SIZE = 2
  Faults = 1
  Ops = {"offer", "delete", "expire", "convert", "resolve", "consume", "book"}
SYMMETRY Symmetry
\* The pool of hold ids runs out.
CHECK_DEADLOCK FALSE
INVARIANTS
  TypeOK
  LiveHoldHasOwner
  BookedEntryIsConverted
PROPERTIES
  OneOfferEach
