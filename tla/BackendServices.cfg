SPECIFICATION BackendSpec
\* A call that is not made again leaves nothing to do: every component may stop.
CHECK_DEADLOCK FALSE
CONSTANTS
  Branches = {b1, b2}
  StaffCalls = {c1, c2}
  StockLines = {l1}
  Amounts <- MCAmounts
  MaxQuantity = 2
  NoCall = NoCall
  NoBranch = NoBranch

  Carts = {1, 2}
  Items = {1, 2, 3}
  Variants = {v1}
  CartCalls = {c1, c2}
  MaxPut = 3
  NoCart = NoCart
  NoItem = NoItem
  NoVariant = NoVariant

  CacheUsers = {u1, u2}
  Checks = {1, 2, 3}
  MaxCached = 1
  MaxChanges = 1
  MaxInvalidations = 1
  NoLoad = NoLoad
  NoAccess = NoAccess
  NoUser = NoUser

  Tokens = {1, 2, 3, 4}
  AuthCalls = {c1, c2}
  NoToken = NoToken

  Codes = {o1, o2}
  OtpCalls = {c1, c2}
  MaxAttempts = 2
  MaxRequests = 2
  MaxGuesses = 3
  NoCode = NoCode

  Accounts = {g1}
  Users = {u1, u2}
  Phones = {p1, p2}
  Emails = {e1}
  LinkCalls = {c1, c2}
  Nothing = Nothing

  Staff = {u1}
  Customers = {k1}
  Assignments = {1, 2, 3}
  PendingIds = {p1}
  DeskCalls = {c1, c2}
  NoOne = NoOne
  NoId = NoId

  Requests = {c1, c2}
  Limit = 1
  MaxCount = 4
  MaxWindows = 2
INVARIANTS
  TypesOK
  LedgerMatches
  ReservationsCovered
  ReservationsKept
  OrderedIsAdded
  FreshAfterInvalidate
  OneLoadAtATime
  CacheBounded
  OneSuccessor
  LogoutIsFinal
  UsedSessionsExpire
  WrongGuessesCounted
  RequestWindowEnds
  SignsInAsLinked
  AccessAgrees
  OneSession
  EndedSessionActsNoMore
  ActionRunsOnce
  RefusalEnds
PROPERTIES
  ClosedCartKept
