SPECIFICATION FairSpec
CONSTANTS
  t1 = t1
  t2 = t2
  i1 = i1
  i2 = i2
  o1 = o1
  o2 = o2
  v1 = v1
  v2 = v2
  pA = pA
  pB = pB
  pC = pC
  la = la
  lb = lb
  k1 = k1
  NoItem = NoItem
  NoOrder = NoOrder
  Thread = {t1, t2}
  Item = {i1, i2}
  ExtId = {o1, o2}
  EventId = {v1, v2}
  Payload = {pA, pB, pC}
  Line = {la, lb}
  LinesOf <- MCLinesOf
  Quantity <- MCQuantity
  Candidates <- LocksCandidates
  FirstStatus <- MCFirstStatus
  InitialOnHand <- LocksOnHand
  Threshold <- MCThreshold
  Webhook <- LocksWebhooks
  Adjustment <- LocksAdjustments
  Target = {"cancelled"}
PROPERTY EveryRequestEnds
