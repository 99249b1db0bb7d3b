SPECIFICATION Spec
CONSTANTS
  r1 = r1
  r2 = r2
  h1 = h1
  h2 = h2
  s1 = s1
  s2 = s2
  p1 = p1
  p2 = p2
  NoRes = NoRes
  NoHold = NoHold
  NoTable = NoTable
  NoSlot = NoSlot
  Keep = Keep
  Res <- TwoRes
  Hold <- NoHolds
  Table = {1, 2}
  Slot <- TwoSlots
  Proc <- TwoProcs
  Seatings <- JoinedSeatings
  Outlasts <- LateExpiry
  Ops = {"create", "update", "assign"}
  Asks = {"CONFIRMED"}
  Edits <- MoveEdits
SYMMETRY Symmetry
\* The pools of ids run out: then nothing is left to do.
CHECK_DEADLOCK FALSE
INVARIANTS
  TypeOK
  DoubleBookingOnlyIfTainted
  SeesEveryClash
  NoLockCycle
PROPERTIES
  OneLedger
