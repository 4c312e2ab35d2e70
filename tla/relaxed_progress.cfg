SPECIFICATION SpecScheduled
CONSTANTS
  Pages = {g1, g2}
  NoPage = nopage
  EndSlot = 1
  Producers = {p1}
  Consumers = {c1, c2}
  MaxPuts = 2
  MaxRaw = 0
  ZeroedPages = TRUE
  Outcomes = {"commit"}
  Sizes = {1}
  MaxInPage = 1
  Guarantees = {"blocking"}
  poller = c1
PROPERTIES
  PollerReturns
  DeliveredIfPolled
CHECK_DEADLOCK FALSE
