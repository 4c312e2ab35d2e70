SPECIFICATION Spec
CONSTANTS
  Pages = {g1, g2, g3}
  NoPage = nopage
  NoThread = nothread
  EndSlot = 1
  Producers = {p1}
  Consumers = {c1, c2, c3}
  MaxPuts = 4
  MaxRaw = 0
  ZeroedPages = FALSE
  Outcomes = {"commit"}
  Sizes = {1}
  MaxInPage = 1
  Guarantees = {"blocking"}
  PutLayers = {"single"}
  ConsumeLayers = {"multiple"}
  p1 = p1
  c1 = c1
  c2 = c2
  c3 = c3
CONSTRAINTS Directed
PROPERTIES
  FirstInFirstOut
CHECK_DEADLOCK FALSE
