\* Two carts on one stock row, every operation.
SPECIFICATION Spec
CONSTANTS
  r1 = r1  r2 = r2  t1 = t1
  c1 = c1  c2 = c2  s1 = s1  s2 = s2  s3 = s3  v1 = v1  v2 = v2
  NoCart = NoCart  NoStock = NoStock  NoTxn = NoTxn  Clean = Clean
  Requests = {r1, r2}
  OrderIds = {1, 2, 3}
  Carts <- TwoCarts
  Lines <- UnitLines
  Method <- Mixed
  Total <- TotalTwo
  Shipping <- ShippingOne
  Stocks = {s1}
  VariantOf <- OneRow
  InitialQty <- TwoUnits
  Amounts = {2}
  TxnIds = {}
  MaxAttempts = 2
  Ops <- AllOps
INVARIANTS
  TypeOK
  SettledOnce
  OneOrderPerCart
  QuantityMatchesMovements
SYMMETRY ReqSymmetry
