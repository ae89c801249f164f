\* Two attempts for one order, one with a wrong provider record, error answers and expiry.
SPECIFICATION Spec
CONSTANTS
  w1 = w1  w2 = w2  r1 = r1  i1 = i1  i2 = i2  o1 = o1  u1 = u1  u2 = u2
  NoIntent = NoIntent
  Workers = {w1, w2}
  Reconcilers = {r1}
  Intents = {i1, i2}
  Orders = {o1}
  OrderOf <- OneOrder
  Amount <- AmountByIntent
  Payer <- SamePayer
  Total <- TotalTwo
  Mismatched = {i2}
  LocksOutlive = TRUE
  MayExpire = TRUE
  ErrorAnswers = TRUE
  MaxEvents = 0
INVARIANTS
  RecordedIsCaptured
  VerdictIsBacked
PROPERTIES
  VerdictIsFinal
SYMMETRY WorkerSymmetry
CHECK_DEADLOCK FALSE
