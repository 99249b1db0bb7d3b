SPECIFICATION Spec
CONSTANTS
  p1 = p1
  r1 = r1
  r2 = r2
  w1 = w1
  w2 = w2
  Place <- OnePlace
  Key = {1}
  Reader <- TwoReaders
  Writer <- TwoWriters
  Changes = 3
  Faults = 1
INVARIANTS
  TypeOK
  StaleOnlyIfRaced
  FreeWasFree
PROPERTIES
  StaleAnswersEnd
