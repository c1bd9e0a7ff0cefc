SPECIFICATION MCSpec
CONSTANTS
  c1 = c1
  c2 = c2
  p1 = p1
  p2 = p2
  da = da
  db = db
  sup = sup
  qa = qa
  qb = qb
  k1 = k1
  d1 = d1
  d2 = d2
  s1 = s1
  NoData = NoData
  Caller = {c1, c2}
  Product = {p1, p2}
  Data = {da, db}
  SupplierOf <- MCSupplierOf
  QuoteOf <- MCQuoteOf
  NoDecision = NoDecision
  NoAmount = NoAmount
  Decision = {k1}
  PriceInput <- MCPriceInput
  Defaults <- MCDefaults
  Fine = 4
  Threshold = 10
  NoDraft = NoDraft
  Nobody = Nobody
  Delivery = {d1, d2}
  Sku = {s1}
  SkuOf <- MCSkuOf
  Market = {"ebay", "amazon", "facebook", "tiktok"}
  MaxTries = 2
  MaxFaults = 3
  h1 = h1
  h2 = h2
  m1 = m1
  m2 = m2
  m3 = m3
  calm = calm
  risky = risky
  Handler = {h1, h2}
  Message = {m1, m2, m3}
  Text = {calm, risky}
  RiskyText = {risky}
  NoMessage = NoMessage
  n1 = n1
  n2 = n2
  n3 = n3
  n4 = n4
  r1 = r1
  r2 = r2
  r3 = r3
  a1 = a1
  f1 = f1
  f2 = f2
  Notice = {n1, n2, n3, n4}
  Return = {r1, r2, r3}
  ReturnOf <- MCReturnOf
  Article = {a1}
  ArticleOf <- MCArticleOf
  Ordered <- MCOrdered
  Returned <- MCReturned
  Sellable = {r1, r2}
  Refund = {f1, f2}
  Amount <- MCAmount
  OrderTotal = 10
  RefundThreshold = 6
  MaxAttempts = 2
  g1 = g1
  g2 = g2
  g3 = g3
  Agent = {g1, g2, g3}
  Step = {g1, g2}
  MonthlyLimit = 5
  MaxCost = 2
  Calls = 3
  ana = ana
  web = web
  NoIdentity = NoIdentity
  NoHost = NoHost
  Identity = {ana}
  Host = {web}
  RolesOf <- MCRolesOf
  Limit = 2
  Window = 2
  Horizon = 3
  b1 = b1
  i1 = i1
  i2 = i2
  e1 = e1
  e2 = e2
  e3 = e3
  NoReorder = NoReorder
  Deal = {b1}
  Shelf = {i1, i2}
  Level <- MCLevel
  Multiplier = 1
  Alarm = {e1, e2, e3}
  ShelfOf <- MCShelfOf
  MaxUnits = 3
CHECK_DEADLOCK FALSE
INVARIANT EveryMessageStored
