SPECIFICATION SpecP1
CONSTANTS
  Pages = {g1, g2, g3}
  NoPage = nopage
  EndSlot = 1
  Producers = {p1, p2}
  Consumers = {c1}
  MaxPuts = 2
  MaxRaw = 0
  ZeroedPages = TRUE
  Outcomes = {"commit"}
  Sizes = {1}
  MaxInPage = 1
  Guarantees = {"lock_free"}
  p1 = p1
  p2 = p2
  c1 = c1
CONSTRAINTS Directed
PROPERTIES
  PutEnds
CHECK_DEADLOCK FALSE
