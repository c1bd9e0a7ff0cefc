SPECIFICATION FairSpec
CONSTANTS
  p1 = p1
  p2 = p2
  i1 = i1
  k1 = k1
  k2 = k2
  t1 = t1
  t2 = t2
  t3 = t3
  NoStock = NoStock
  NoCall = NoCall
  Purchase = {p1}
  Ordered <- TwoUnits
  Place = {i1}
  Key = {k1}
  Thread = {t1, t2}
  MaxReceipt = 2

PROPERTIES EveryCallEnds
