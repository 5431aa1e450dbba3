CONSTANTS
  Threads = {t1, t2}
  Keys = {k1, k2}
  Stocks = {s1, s2, s3}
  None = None
SPECIFICATION Spec
INVARIANTS TypeOK OneStockPerKey NoStaleEntry OnlyBareThisCrashes
PROPERTY FactoryDies
CHECK_DEADLOCK FALSE
