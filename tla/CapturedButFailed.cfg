\* A captured payment whose query is answered with an error body.
SPECIFICATION FairSpec
CONSTANTS
  w1 = w1  w2 = w2  r1 = r1  i1 = i1  i2 = i2  o1 = o1  u1 = u1  u2 = u2
  NoIntent = NoIntent
  Workers = {w1}
  Reconcilers = {r1}
  Intents = {i1}
  Orders = {o1}
  OrderOf <- OneOrder
  Amount <- AmountOne
  Payer <- SamePayer
  Total <- TotalTwo
  Mismatched = {}
  LocksOutlive = TRUE
  MayExpire = FALSE
  ErrorAnswers = TRUE
  MaxEvents = 0
PROPERTIES
  CapturedIsSettled
