\* One transaction id submitted twice, at the same time.
SPECIFICATION Spec
CONSTANTS
  r1 = r1  r2 = r2  t1 = t1
  c1 = c1  c2 = c2  s1 = s1  s2 = s2  s3 = s3  v1 = v1  v2 = v2
  NoCart = NoCart  NoStock = NoStock  NoTxn = NoTxn  Clean = Clean
  Requests = {r1, r2}
  OrderIds = {1, 2}
  Carts <- OneCart
  Lines <- UnitLines
  Method <- AllOnline
  Total <- TotalThree
  Shipping <- ShippingOne
  Stocks = {s1}
  VariantOf <- OneRow
  InitialQty <- TwoUnits
  Amounts = {1}
  TxnIds = {t1}
  MaxAttempts = 2
  Ops <- CheckoutOps
INVARIANTS
  TransactionRecordedOnce
SYMMETRY ReqSymmetry
